---- MODULE Spec2Model ----
(***************************************************************************)
(* Model of concierge_agent.py: the terminal session loop (main) and one   *)
(* turn of the agentic chain (run_concierge_agent), with the tools         *)
(* (search_web, browse_website, get_current_location, send_email) and the  *)
(* generation backend (call_gemma_ollama) as blocking external calls whose *)
(* returned text is drawn from small sets.                                 *)
(*                                                                         *)
(* A text (a Python str) is the sequence of its code points, each a number *)
(* in 0..1114111; Str writes one down from its ASCII characters.  The      *)
(* string methods the code uses (strip, lower, startswith, in, replace,    *)
(* split, splitlines, join) are operators on these sequences, with the     *)
(* character classes of the Unicode database of the interpreter (14.0).    *)
(* print() raises UnicodeEncodeError on a text the standard output cannot  *)
(* encode (PrintError): this is followed for the preview of the e-mail     *)
(* (line 372) and for send_email (line 128); the other prints write texts  *)
(* of the sets below, which the standard output can encode.                *)
(***************************************************************************)
EXTENDS Integers, Sequences, FiniteSets, TLC

(***************************************************************************)
(* Texts                                                                   *)
(***************************************************************************)

\* the printable ASCII characters from the space (code point 32) to the
\* underscore (95), and from a (97) to the tilde (126)
AsciiLow ==
    " !\"#$%&'()*+,-./0123456789:;<=>?@ABCDEFGHIJKLMNOPQRSTUVWXYZ[\\]^_"
AsciiHigh == "abcdefghijklmnopqrstuvwxyz{|}~"

\* ord(c) of the characters a text of this module is written with
OrdOf ==
    [c \in {SubSeq(AsciiLow, i, i) : i \in 1..Len(AsciiLow)}
             \cup {SubSeq(AsciiHigh, i, i) : i \in 1..Len(AsciiHigh)}
             \cup {"\t", "\n", "\f", "\r"} |->
        CASE c = "\t" -> 9 [] c = "\n" -> 10 [] c = "\f" -> 12
          [] c = "\r" -> 13
          [] \E i \in 1..Len(AsciiLow) : SubSeq(AsciiLow, i, i) = c ->
                 31 + (CHOOSE i \in 1..Len(AsciiLow) :
                           SubSeq(AsciiLow, i, i) = c)
          [] OTHER ->
                 96 + (CHOOSE i \in 1..Len(AsciiHigh) :
                           SubSeq(AsciiHigh, i, i) = c)]

\* the text written as the string literal s
Str(s) == SubSeq([i \in 1..Len(s) |-> OrdOf[SubSeq(s, i, i)]], 1, Len(s))

RECURSIVE Concat(_, _, _)
\* the texts parts[lo], ..., parts[hi] one after the other
Concat(parts, lo, hi) ==
    IF lo > hi THEN <<>>
    ELSE IF lo = hi THEN parts[lo]
    ELSE Concat(parts, lo, (lo + hi) \div 2)
             \o Concat(parts, (lo + hi) \div 2 + 1, hi)

(***************************************************************************)
(* Python string methods                                                   *)
(***************************************************************************)

\* whether the code point c lies in one of the ranges <<first, last>>
InRanges(c, ranges) == \E r \in ranges : r[1] <= c /\ c <= r[2]

\* the characters str.strip() removes: those with str.isspace()
Whitespace ==
    {9, 10, 11, 12, 13, 28, 29, 30, 31, 32, 133, 160, 5760, 8192, 8193,
     8194, 8195, 8196, 8197, 8198, 8199, 8200, 8201, 8202, 8232, 8233, 8239,
     8287, 12288}

\* str.lstrip(): s from its first character that is not whitespace
LStrip(s) ==
    IF \A i \in 1..Len(s) : s[i] \in Whitespace THEN <<>>
    ELSE SubSeq(s, CHOOSE i \in 1..Len(s) :
                       /\ s[i] \notin Whitespace
                       /\ \A j \in 1..(i - 1) : s[j] \in Whitespace,
                Len(s))

\* str.rstrip(): s up to its last character that is not whitespace
RStrip(s) ==
    IF \A i \in 1..Len(s) : s[i] \in Whitespace THEN <<>>
    ELSE SubSeq(s, 1, CHOOSE i \in 1..Len(s) :
                          /\ s[i] \notin Whitespace
                          /\ \A j \in (i + 1)..Len(s) : s[j] \in Whitespace)

\* str.strip()
Strip(s) == RStrip(LStrip(s))

\* the characters str.splitlines() breaks a line at
LineBreaks ==
    {10, 11, 12, 13, 28, 29, 30, 133, 8232, 8233}

\* the simple lower-case mappings above ASCII, <<first, last, step, delta>>:
\* every step-th code point from first to last is lowered by adding delta
LowerRuns ==
    {<<192, 214, 1, 32>>, <<216, 222, 1, 32>>, <<256, 302, 2, 1>>,
     <<306, 310, 2, 1>>, <<313, 327, 2, 1>>, <<330, 374, 2, 1>>,
     <<376, 376, 1, -121>>, <<377, 381, 2, 1>>, <<385, 385, 1, 210>>,
     <<386, 388, 2, 1>>, <<390, 390, 1, 206>>, <<391, 391, 1, 1>>,
     <<393, 394, 1, 205>>, <<395, 395, 1, 1>>, <<398, 398, 1, 79>>,
     <<399, 399, 1, 202>>, <<400, 400, 1, 203>>, <<401, 401, 1, 1>>,
     <<403, 403, 1, 205>>, <<404, 404, 1, 207>>, <<406, 406, 1, 211>>,
     <<407, 407, 1, 209>>, <<408, 408, 1, 1>>, <<412, 412, 1, 211>>,
     <<413, 413, 1, 213>>, <<415, 415, 1, 214>>, <<416, 420, 2, 1>>,
     <<422, 422, 1, 218>>, <<423, 423, 1, 1>>, <<425, 425, 1, 218>>,
     <<428, 428, 1, 1>>, <<430, 430, 1, 218>>, <<431, 431, 1, 1>>,
     <<433, 434, 1, 217>>, <<435, 437, 2, 1>>, <<439, 439, 1, 219>>,
     <<440, 440, 1, 1>>, <<444, 444, 1, 1>>, <<452, 452, 1, 2>>,
     <<453, 453, 1, 1>>, <<455, 455, 1, 2>>, <<456, 456, 1, 1>>,
     <<458, 458, 1, 2>>, <<459, 475, 2, 1>>, <<478, 494, 2, 1>>,
     <<497, 497, 1, 2>>, <<498, 500, 2, 1>>, <<502, 502, 1, -97>>,
     <<503, 503, 1, -56>>, <<504, 542, 2, 1>>, <<544, 544, 1, -130>>,
     <<546, 562, 2, 1>>, <<570, 570, 1, 10795>>, <<571, 571, 1, 1>>,
     <<573, 573, 1, -163>>, <<574, 574, 1, 10792>>, <<577, 577, 1, 1>>,
     <<579, 579, 1, -195>>, <<580, 580, 1, 69>>, <<581, 581, 1, 71>>,
     <<582, 590, 2, 1>>, <<880, 882, 2, 1>>, <<886, 886, 1, 1>>,
     <<895, 895, 1, 116>>, <<902, 902, 1, 38>>, <<904, 906, 1, 37>>,
     <<908, 908, 1, 64>>, <<910, 911, 1, 63>>, <<913, 929, 1, 32>>,
     <<932, 939, 1, 32>>, <<975, 975, 1, 8>>, <<984, 1006, 2, 1>>,
     <<1012, 1012, 1, -60>>, <<1015, 1015, 1, 1>>, <<1017, 1017, 1, -7>>,
     <<1018, 1018, 1, 1>>, <<1021, 1023, 1, -130>>, <<1024, 1039, 1, 80>>,
     <<1040, 1071, 1, 32>>, <<1120, 1152, 2, 1>>, <<1162, 1214, 2, 1>>,
     <<1216, 1216, 1, 15>>, <<1217, 1229, 2, 1>>, <<1232, 1326, 2, 1>>,
     <<1329, 1366, 1, 48>>, <<4256, 4293, 1, 7264>>,
     <<4295, 4295, 1, 7264>>, <<4301, 4301, 1, 7264>>,
     <<5024, 5103, 1, 38864>>, <<5104, 5109, 1, 8>>,
     <<7312, 7354, 1, -3008>>, <<7357, 7359, 1, -3008>>,
     <<7680, 7828, 2, 1>>, <<7838, 7838, 1, -7615>>, <<7840, 7934, 2, 1>>,
     <<7944, 7951, 1, -8>>, <<7960, 7965, 1, -8>>, <<7976, 7983, 1, -8>>,
     <<7992, 7999, 1, -8>>, <<8008, 8013, 1, -8>>, <<8025, 8031, 2, -8>>,
     <<8040, 8047, 1, -8>>, <<8072, 8079, 1, -8>>, <<8088, 8095, 1, -8>>,
     <<8104, 8111, 1, -8>>, <<8120, 8121, 1, -8>>, <<8122, 8123, 1, -74>>,
     <<8124, 8124, 1, -9>>, <<8136, 8139, 1, -86>>, <<8140, 8140, 1, -9>>,
     <<8152, 8153, 1, -8>>, <<8154, 8155, 1, -100>>, <<8168, 8169, 1, -8>>,
     <<8170, 8171, 1, -112>>, <<8172, 8172, 1, -7>>,
     <<8184, 8185, 1, -128>>, <<8186, 8187, 1, -126>>,
     <<8188, 8188, 1, -9>>, <<8486, 8486, 1, -7517>>,
     <<8490, 8490, 1, -8383>>, <<8491, 8491, 1, -8262>>,
     <<8498, 8498, 1, 28>>, <<8544, 8559, 1, 16>>, <<8579, 8579, 1, 1>>,
     <<9398, 9423, 1, 26>>, <<11264, 11311, 1, 48>>, <<11360, 11360, 1, 1>>,
     <<11362, 11362, 1, -10743>>, <<11363, 11363, 1, -3814>>,
     <<11364, 11364, 1, -10727>>, <<11367, 11371, 2, 1>>,
     <<11373, 11373, 1, -10780>>, <<11374, 11374, 1, -10749>>,
     <<11375, 11375, 1, -10783>>, <<11376, 11376, 1, -10782>>,
     <<11378, 11378, 1, 1>>, <<11381, 11381, 1, 1>>,
     <<11390, 11391, 1, -10815>>, <<11392, 11490, 2, 1>>,
     <<11499, 11501, 2, 1>>, <<11506, 11506, 1, 1>>, <<42560, 42604, 2, 1>>,
     <<42624, 42650, 2, 1>>, <<42786, 42798, 2, 1>>, <<42802, 42862, 2, 1>>,
     <<42873, 42875, 2, 1>>, <<42877, 42877, 1, -35332>>,
     <<42878, 42886, 2, 1>>, <<42891, 42891, 1, 1>>,
     <<42893, 42893, 1, -42280>>, <<42896, 42898, 2, 1>>,
     <<42902, 42920, 2, 1>>, <<42922, 42922, 1, -42308>>,
     <<42923, 42923, 1, -42319>>, <<42924, 42924, 1, -42315>>,
     <<42925, 42925, 1, -42305>>, <<42926, 42926, 1, -42308>>,
     <<42928, 42928, 1, -42258>>, <<42929, 42929, 1, -42282>>,
     <<42930, 42930, 1, -42261>>, <<42931, 42931, 1, 928>>,
     <<42932, 42946, 2, 1>>, <<42948, 42948, 1, -48>>,
     <<42949, 42949, 1, -42307>>, <<42950, 42950, 1, -35384>>,
     <<42951, 42953, 2, 1>>, <<42960, 42960, 1, 1>>, <<42966, 42968, 2, 1>>,
     <<42997, 42997, 1, 1>>, <<65313, 65338, 1, 32>>,
     <<66560, 66599, 1, 40>>, <<66736, 66771, 1, 40>>,
     <<66928, 66938, 1, 39>>, <<66940, 66954, 1, 39>>,
     <<66956, 66962, 1, 39>>, <<66964, 66965, 1, 39>>,
     <<68736, 68786, 1, 64>>, <<71840, 71871, 1, 32>>,
     <<93760, 93791, 1, 32>>, <<125184, 125217, 1, 34>>}

\* the ranges of the characters that are Case_Ignorable
CaseIgnorable ==
    {<<39, 39>>, <<46, 46>>, <<58, 58>>, <<94, 94>>, <<96, 96>>,
     <<168, 168>>, <<173, 173>>, <<175, 175>>, <<180, 180>>, <<183, 184>>,
     <<688, 879>>, <<884, 885>>, <<890, 890>>, <<900, 901>>, <<903, 903>>,
     <<1155, 1161>>, <<1369, 1369>>, <<1375, 1375>>, <<1425, 1469>>,
     <<1471, 1471>>, <<1473, 1474>>, <<1476, 1477>>, <<1479, 1479>>,
     <<1524, 1524>>, <<1536, 1541>>, <<1552, 1562>>, <<1564, 1564>>,
     <<1600, 1600>>, <<1611, 1631>>, <<1648, 1648>>, <<1750, 1757>>,
     <<1759, 1768>>, <<1770, 1773>>, <<1807, 1807>>, <<1809, 1809>>,
     <<1840, 1866>>, <<1958, 1968>>, <<2027, 2037>>, <<2042, 2042>>,
     <<2045, 2045>>, <<2070, 2093>>, <<2137, 2139>>, <<2184, 2184>>,
     <<2192, 2193>>, <<2200, 2207>>, <<2249, 2306>>, <<2362, 2362>>,
     <<2364, 2364>>, <<2369, 2376>>, <<2381, 2381>>, <<2385, 2391>>,
     <<2402, 2403>>, <<2417, 2417>>, <<2433, 2433>>, <<2492, 2492>>,
     <<2497, 2500>>, <<2509, 2509>>, <<2530, 2531>>, <<2558, 2558>>,
     <<2561, 2562>>, <<2620, 2620>>, <<2625, 2626>>, <<2631, 2632>>,
     <<2635, 2637>>, <<2641, 2641>>, <<2672, 2673>>, <<2677, 2677>>,
     <<2689, 2690>>, <<2748, 2748>>, <<2753, 2757>>, <<2759, 2760>>,
     <<2765, 2765>>, <<2786, 2787>>, <<2810, 2815>>, <<2817, 2817>>,
     <<2876, 2876>>, <<2879, 2879>>, <<2881, 2884>>, <<2893, 2893>>,
     <<2901, 2902>>, <<2914, 2915>>, <<2946, 2946>>, <<3008, 3008>>,
     <<3021, 3021>>, <<3072, 3072>>, <<3076, 3076>>, <<3132, 3132>>,
     <<3134, 3136>>, <<3142, 3144>>, <<3146, 3149>>, <<3157, 3158>>,
     <<3170, 3171>>, <<3201, 3201>>, <<3260, 3260>>, <<3263, 3263>>,
     <<3270, 3270>>, <<3276, 3277>>, <<3298, 3299>>, <<3328, 3329>>,
     <<3387, 3388>>, <<3393, 3396>>, <<3405, 3405>>, <<3426, 3427>>,
     <<3457, 3457>>, <<3530, 3530>>, <<3538, 3540>>, <<3542, 3542>>,
     <<3633, 3633>>, <<3636, 3642>>, <<3654, 3662>>, <<3761, 3761>>,
     <<3764, 3772>>, <<3782, 3782>>, <<3784, 3789>>, <<3864, 3865>>,
     <<3893, 3893>>, <<3895, 3895>>, <<3897, 3897>>, <<3953, 3966>>,
     <<3968, 3972>>, <<3974, 3975>>, <<3981, 3991>>, <<3993, 4028>>,
     <<4038, 4038>>, <<4141, 4144>>, <<4146, 4151>>, <<4153, 4154>>,
     <<4157, 4158>>, <<4184, 4185>>, <<4190, 4192>>, <<4209, 4212>>,
     <<4226, 4226>>, <<4229, 4230>>, <<4237, 4237>>, <<4253, 4253>>,
     <<4348, 4348>>, <<4957, 4959>>, <<5906, 5908>>, <<5938, 5939>>,
     <<5970, 5971>>, <<6002, 6003>>, <<6068, 6069>>, <<6071, 6077>>,
     <<6086, 6086>>, <<6089, 6099>>, <<6103, 6103>>, <<6109, 6109>>,
     <<6155, 6159>>, <<6211, 6211>>, <<6277, 6278>>, <<6313, 6313>>,
     <<6432, 6434>>, <<6439, 6440>>, <<6450, 6450>>, <<6457, 6459>>,
     <<6679, 6680>>, <<6683, 6683>>, <<6742, 6742>>, <<6744, 6750>>,
     <<6752, 6752>>, <<6754, 6754>>, <<6757, 6764>>, <<6771, 6780>>,
     <<6783, 6783>>, <<6823, 6823>>, <<6832, 6862>>, <<6912, 6915>>,
     <<6964, 6964>>, <<6966, 6970>>, <<6972, 6972>>, <<6978, 6978>>,
     <<7019, 7027>>, <<7040, 7041>>, <<7074, 7077>>, <<7080, 7081>>,
     <<7083, 7085>>, <<7142, 7142>>, <<7144, 7145>>, <<7149, 7149>>,
     <<7151, 7153>>, <<7212, 7219>>, <<7222, 7223>>, <<7288, 7293>>,
     <<7376, 7378>>, <<7380, 7392>>, <<7394, 7400>>, <<7405, 7405>>,
     <<7412, 7412>>, <<7416, 7417>>, <<7468, 7530>>, <<7544, 7544>>,
     <<7579, 7679>>, <<8125, 8125>>, <<8127, 8129>>, <<8141, 8143>>,
     <<8157, 8159>>, <<8173, 8175>>, <<8189, 8190>>, <<8203, 8207>>,
     <<8216, 8217>>, <<8228, 8228>>, <<8231, 8231>>, <<8234, 8238>>,
     <<8288, 8292>>, <<8294, 8303>>, <<8305, 8305>>, <<8319, 8319>>,
     <<8336, 8348>>, <<8400, 8432>>, <<11388, 11389>>, <<11503, 11505>>,
     <<11631, 11631>>, <<11647, 11647>>, <<11744, 11775>>, <<11823, 11823>>,
     <<12293, 12293>>, <<12330, 12333>>, <<12337, 12341>>, <<12347, 12347>>,
     <<12441, 12446>>, <<12540, 12542>>, <<40981, 40981>>, <<42232, 42237>>,
     <<42508, 42508>>, <<42607, 42610>>, <<42612, 42621>>, <<42623, 42623>>,
     <<42652, 42655>>, <<42736, 42737>>, <<42752, 42785>>, <<42864, 42864>>,
     <<42888, 42890>>, <<42994, 42996>>, <<43000, 43001>>, <<43010, 43010>>,
     <<43014, 43014>>, <<43019, 43019>>, <<43045, 43046>>, <<43052, 43052>>,
     <<43204, 43205>>, <<43232, 43249>>, <<43263, 43263>>, <<43302, 43309>>,
     <<43335, 43345>>, <<43392, 43394>>, <<43443, 43443>>, <<43446, 43449>>,
     <<43452, 43453>>, <<43471, 43471>>, <<43493, 43494>>, <<43561, 43566>>,
     <<43569, 43570>>, <<43573, 43574>>, <<43587, 43587>>, <<43596, 43596>>,
     <<43632, 43632>>, <<43644, 43644>>, <<43696, 43696>>, <<43698, 43700>>,
     <<43703, 43704>>, <<43710, 43711>>, <<43713, 43713>>, <<43741, 43741>>,
     <<43756, 43757>>, <<43763, 43764>>, <<43766, 43766>>, <<43867, 43871>>,
     <<43881, 43883>>, <<44005, 44005>>, <<44008, 44008>>, <<44013, 44013>>,
     <<64286, 64286>>, <<64434, 64450>>, <<65024, 65039>>, <<65043, 65043>>,
     <<65056, 65071>>, <<65106, 65106>>, <<65109, 65109>>, <<65279, 65279>>,
     <<65287, 65287>>, <<65294, 65294>>, <<65306, 65306>>, <<65342, 65342>>,
     <<65344, 65344>>, <<65392, 65392>>, <<65438, 65439>>, <<65507, 65507>>,
     <<65529, 65531>>, <<66045, 66045>>, <<66272, 66272>>, <<66422, 66426>>,
     <<67456, 67461>>, <<67463, 67504>>, <<67506, 67514>>, <<68097, 68099>>,
     <<68101, 68102>>, <<68108, 68111>>, <<68152, 68154>>, <<68159, 68159>>,
     <<68325, 68326>>, <<68900, 68903>>, <<69291, 69292>>, <<69446, 69456>>,
     <<69506, 69509>>, <<69633, 69633>>, <<69688, 69702>>, <<69744, 69744>>,
     <<69747, 69748>>, <<69759, 69761>>, <<69811, 69814>>, <<69817, 69818>>,
     <<69821, 69821>>, <<69826, 69826>>, <<69837, 69837>>, <<69888, 69890>>,
     <<69927, 69931>>, <<69933, 69940>>, <<70003, 70003>>, <<70016, 70017>>,
     <<70070, 70078>>, <<70089, 70092>>, <<70095, 70095>>, <<70191, 70193>>,
     <<70196, 70196>>, <<70198, 70199>>, <<70206, 70206>>, <<70367, 70367>>,
     <<70371, 70378>>, <<70400, 70401>>, <<70459, 70460>>, <<70464, 70464>>,
     <<70502, 70508>>, <<70512, 70516>>, <<70712, 70719>>, <<70722, 70724>>,
     <<70726, 70726>>, <<70750, 70750>>, <<70835, 70840>>, <<70842, 70842>>,
     <<70847, 70848>>, <<70850, 70851>>, <<71090, 71093>>, <<71100, 71101>>,
     <<71103, 71104>>, <<71132, 71133>>, <<71219, 71226>>, <<71229, 71229>>,
     <<71231, 71232>>, <<71339, 71339>>, <<71341, 71341>>, <<71344, 71349>>,
     <<71351, 71351>>, <<71453, 71455>>, <<71458, 71461>>, <<71463, 71467>>,
     <<71727, 71735>>, <<71737, 71738>>, <<71995, 71996>>, <<71998, 71998>>,
     <<72003, 72003>>, <<72148, 72151>>, <<72154, 72155>>, <<72160, 72160>>,
     <<72193, 72202>>, <<72243, 72248>>, <<72251, 72254>>, <<72263, 72263>>,
     <<72273, 72278>>, <<72281, 72283>>, <<72330, 72342>>, <<72344, 72345>>,
     <<72752, 72758>>, <<72760, 72765>>, <<72767, 72767>>, <<72850, 72871>>,
     <<72874, 72880>>, <<72882, 72883>>, <<72885, 72886>>, <<73009, 73014>>,
     <<73018, 73018>>, <<73020, 73021>>, <<73023, 73029>>, <<73031, 73031>>,
     <<73104, 73105>>, <<73109, 73109>>, <<73111, 73111>>, <<73459, 73460>>,
     <<78896, 78904>>, <<92912, 92916>>, <<92976, 92982>>, <<92992, 92995>>,
     <<94031, 94031>>, <<94095, 94111>>, <<94176, 94177>>, <<94179, 94180>>,
     <<110576, 110579>>, <<110581, 110587>>, <<110589, 110590>>,
     <<113821, 113822>>, <<113824, 113827>>, <<118528, 118573>>,
     <<118576, 118598>>, <<119143, 119145>>, <<119155, 119170>>,
     <<119173, 119179>>, <<119210, 119213>>, <<119362, 119364>>,
     <<121344, 121398>>, <<121403, 121452>>, <<121461, 121461>>,
     <<121476, 121476>>, <<121499, 121503>>, <<121505, 121519>>,
     <<122880, 122886>>, <<122888, 122904>>, <<122907, 122913>>,
     <<122915, 122916>>, <<122918, 122922>>, <<123184, 123197>>,
     <<123566, 123566>>, <<123628, 123631>>, <<125136, 125142>>,
     <<125252, 125259>>, <<127995, 127999>>, <<917505, 917505>>,
     <<917536, 917631>>, <<917760, 917999>>}

\* the ranges of the characters that are Cased and not Case_Ignorable
CasedLetters ==
    {<<65, 90>>, <<97, 122>>, <<170, 170>>, <<181, 181>>, <<186, 186>>,
     <<192, 214>>, <<216, 246>>, <<248, 442>>, <<444, 447>>, <<452, 659>>,
     <<661, 687>>, <<880, 883>>, <<886, 887>>, <<891, 893>>, <<895, 895>>,
     <<902, 902>>, <<904, 906>>, <<908, 908>>, <<910, 929>>, <<931, 1013>>,
     <<1015, 1153>>, <<1162, 1327>>, <<1329, 1366>>, <<1376, 1416>>,
     <<4256, 4293>>, <<4295, 4295>>, <<4301, 4301>>, <<4304, 4346>>,
     <<4349, 4351>>, <<5024, 5109>>, <<5112, 5117>>, <<7296, 7304>>,
     <<7312, 7354>>, <<7357, 7359>>, <<7424, 7467>>, <<7531, 7543>>,
     <<7545, 7578>>, <<7680, 7957>>, <<7960, 7965>>, <<7968, 8005>>,
     <<8008, 8013>>, <<8016, 8023>>, <<8025, 8025>>, <<8027, 8027>>,
     <<8029, 8029>>, <<8031, 8061>>, <<8064, 8116>>, <<8118, 8124>>,
     <<8126, 8126>>, <<8130, 8132>>, <<8134, 8140>>, <<8144, 8147>>,
     <<8150, 8155>>, <<8160, 8172>>, <<8178, 8180>>, <<8182, 8188>>,
     <<8450, 8450>>, <<8455, 8455>>, <<8458, 8467>>, <<8469, 8469>>,
     <<8473, 8477>>, <<8484, 8484>>, <<8486, 8486>>, <<8488, 8488>>,
     <<8490, 8493>>, <<8495, 8500>>, <<8505, 8505>>, <<8508, 8511>>,
     <<8517, 8521>>, <<8526, 8526>>, <<8544, 8575>>, <<8579, 8580>>,
     <<9398, 9449>>, <<11264, 11387>>, <<11390, 11492>>, <<11499, 11502>>,
     <<11506, 11507>>, <<11520, 11557>>, <<11559, 11559>>, <<11565, 11565>>,
     <<42560, 42605>>, <<42624, 42651>>, <<42786, 42863>>, <<42865, 42887>>,
     <<42891, 42894>>, <<42896, 42954>>, <<42960, 42961>>, <<42963, 42963>>,
     <<42965, 42969>>, <<42997, 42998>>, <<43002, 43002>>, <<43824, 43866>>,
     <<43872, 43880>>, <<43888, 43967>>, <<64256, 64262>>, <<64275, 64279>>,
     <<65313, 65338>>, <<65345, 65370>>, <<66560, 66639>>, <<66736, 66771>>,
     <<66776, 66811>>, <<66928, 66938>>, <<66940, 66954>>, <<66956, 66962>>,
     <<66964, 66965>>, <<66967, 66977>>, <<66979, 66993>>, <<66995, 67001>>,
     <<67003, 67004>>, <<68736, 68786>>, <<68800, 68850>>, <<71840, 71903>>,
     <<93760, 93823>>, <<119808, 119892>>, <<119894, 119964>>,
     <<119966, 119967>>, <<119970, 119970>>, <<119973, 119974>>,
     <<119977, 119980>>, <<119982, 119993>>, <<119995, 119995>>,
     <<119997, 120003>>, <<120005, 120069>>, <<120071, 120074>>,
     <<120077, 120084>>, <<120086, 120092>>, <<120094, 120121>>,
     <<120123, 120126>>, <<120128, 120132>>, <<120134, 120134>>,
     <<120138, 120144>>, <<120146, 120485>>, <<120488, 120512>>,
     <<120514, 120538>>, <<120540, 120570>>, <<120572, 120596>>,
     <<120598, 120628>>, <<120630, 120654>>, <<120656, 120686>>,
     <<120688, 120712>>, <<120714, 120744>>, <<120746, 120770>>,
     <<120772, 120779>>, <<122624, 122633>>, <<122635, 122654>>,
     <<125184, 125251>>, <<127280, 127305>>, <<127312, 127337>>,
     <<127344, 127369>>}

\* the lower-case form of one character other than the capital sigma
LowerChar(c) ==
    IF c < 128 THEN (IF 65 <= c /\ c <= 90 THEN <<c + 32>> ELSE <<c>>)
    ELSE IF c = 304 THEN <<105, 775>>
    ELSE LET runs == {r \in LowerRuns :
                         r[1] <= c /\ c <= r[2] /\ (c - r[1]) % r[3] = 0}
         IN IF runs = {} THEN <<c>>
            ELSE <<c + (CHOOSE r \in runs : TRUE)[4]>>

\* the lower-case form of the capital sigma s[i] (code point 931): the final
\* form 962 after a cased letter and not before one, case-ignorable
\* characters skipped on both sides; 963 otherwise
LowerSigma(s, i) ==
    LET before == {j \in 1..(i - 1) : ~InRanges(s[j], CaseIgnorable)}
        after == {j \in (i + 1)..Len(s) : ~InRanges(s[j], CaseIgnorable)}
        last == CHOOSE j \in before : \A k \in before : k <= j
        next == CHOOSE j \in after : \A k \in after : j <= k
    IN IF /\ before # {}
          /\ InRanges(s[last], CasedLetters)
          /\ (after = {} \/ ~InRanges(s[next], CasedLetters))
       THEN <<962>> ELSE <<963>>

\* str.lower(): the lower-case forms of the characters, one after the other
Lower(s) ==
    Concat([i \in 1..Len(s) |->
               IF s[i] = 931 THEN LowerSigma(s, i) ELSE LowerChar(s[i])],
           1, Len(s))

\* str.startswith(p)
StartsWith(s, p) == Len(s) >= Len(p) /\ SubSeq(s, 1, Len(p)) = p

\* sub in s
Contains(s, sub) ==
    \E i \in 1..(Len(s) - Len(sub) + 1) : SubSeq(s, i, i + Len(sub) - 1) = sub

\* s.replace(c, '') for the one character c
RemoveChar(s, c) == SelectSeq(s, LAMBDA x : x # c)

\* index of the k-th occurrence of the character c in s; 0 for k = 0, and
\* Len(s) + 1 when s has fewer occurrences
IndexOf(s, c, k) ==
    LET at == {i \in 1..Len(s) : s[i] = c} IN
    IF k = 0 THEN 0
    ELSE IF k > Cardinality(at) THEN Len(s) + 1
    ELSE CHOOSE i \in at : Cardinality({j \in at : j < i}) = k - 1

\* s.split(sep) for the one character sep: the pieces between the
\* occurrences of sep
Split(s, sep) ==
    LET n == Cardinality({i \in 1..Len(s) : s[i] = sep}) + 1 IN
    SubSeq([k \in 1..n |-> SubSeq(s, IndexOf(s, sep, k - 1) + 1,
                                     IndexOf(s, sep, k) - 1)], 1, n)

\* sep.join(parts)
Join(sep, parts) ==
    Concat([k \in 1..(2 * Len(parts) - 1) |->
               IF k % 2 = 1 THEN parts[(k + 1) \div 2] ELSE sep],
           1, 2 * Len(parts) - 1)

\* len(s.splitlines()) > 1: something follows the first line break of s
\* (the pair \r\n is one line break)
MultiLine(s) ==
    \E i \in 1..Len(s) :
        /\ s[i] \in LineBreaks
        /\ \A j \in 1..(i - 1) : s[j] \notin LineBreaks
        /\ (IF s[i] = 13 /\ i < Len(s) /\ s[i + 1] = 10
            THEN i + 1 < Len(s) ELSE i < Len(s))

\* whether s holds a surrogate code point, which no UTF-8 text has
HasSurrogate(s) == \E i \in 1..Len(s) : 55296 <= s[i] /\ s[i] <= 57343


(***************************************************************************)
(* json.loads: the scanner of the json module for the JSON grammar         *)
(* (objects, arrays, strings with their escapes, numbers, true, false,     *)
(* null, NaN, Infinity, -Infinity).  Parsed values are tagged records:     *)
(*   t = "str"   s the text                                                *)
(*       "int"   s the decimal numeral of the value, "-12"                 *)
(*       "float" s the sign and the significant digits and n the power of  *)
(*               ten of the last digit (1.5 is "15" with n = -1), zero is  *)
(*               "0" or "-0"; s is "nan", "inf" or "-inf" otherwise        *)
(*       "bool"  n = 1 for True                                            *)
(*       "null"                                                            *)
(*       "list"  items                                                     *)
(*       "dict"  items = <<key, value>> pairs in insertion order           *)
(* A float is kept as the decimal number written, rounded to zero or to    *)
(* infinity where a double is; the code only tests a number for truth.     *)
(***************************************************************************)

JStr(s) == [t |-> "str", s |-> s, n |-> 0, items |-> <<>>]
JInt(s) == [t |-> "int", s |-> s, n |-> 0, items |-> <<>>]
JFloat(s, n) == [t |-> "float", s |-> s, n |-> n, items |-> <<>>]
JBool(b) == [t |-> "bool", s |-> <<>>, n |-> IF b THEN 1 ELSE 0, items |-> <<>>]
JNull == [t |-> "null", s |-> <<>>, n |-> 0, items |-> <<>>]
JList(items) == [t |-> "list", s |-> <<>>, n |-> 0, items |-> items]
JDict(pairs) == [t |-> "dict", s |-> <<>>, n |-> 0, items |-> pairs]

\* a local variable that should hold a parsed value and is not assigned
JUnbound == [t |-> "unbound", s |-> <<>>, n |-> 0, items |-> <<>>]

\* a parse step: ok, the value, the index after it, and the exception raised
\* when it is not ok
ParseFail == [ok |-> FALSE, v |-> JNull, p |-> 0, exc |-> "JSONDecodeError"]
ParseOk(v, p) == [ok |-> TRUE, v |-> v, p |-> p, exc |-> ""]

\* int() of a numeral of more than 4300 digits
ParseTooLong == [ok |-> FALSE, v |-> JNull, p |-> 0, exc |-> "ValueError"]

\* sys.int_info.default_max_str_digits
MaxStrDigits == 4300

\* the scanner recursing deeper than the interpreter allows
ParseTooDeep ==
    [ok |-> FALSE, v |-> JNull, p |-> 0, exc |-> "RecursionError"]

\* sys.getrecursionlimit()
RecursionLimit == 1000

\* the frames in use when the scanner starts: the module, main,
\* run_concierge_agent, json.loads, JSONDecoder.decode and raw_decode
CallDepth == 6

\* space, \t, \n, \r
JsonWhitespace == {32, 9, 10, 13}

\* 0-9
Digits == 48..57

\* int(c, 16) of a hexadecimal digit
HexVal(c) ==
    IF c \in 48..57 THEN c - 48
    ELSE IF c \in 65..70 THEN c - 55
    ELSE c - 87

HexDigits == (48..57) \cup (65..70) \cup (97..102)

\* the character a one-letter escape stands for (json.decoder.BACKSLASH)
Unescape(e) ==
    CASE e = 34 -> 34       \* \"
      [] e = 92 -> 92       \* \\
      [] e = 47 -> 47       \* \/
      [] e = 98 -> 8        \* \b
      [] e = 102 -> 12      \* \f
      [] e = 110 -> 10      \* \n
      [] e = 114 -> 13      \* \r
      [] e = 116 -> 9       \* \t

\* the index of the first character from index i on that is not whitespace
SkipWs(s, i) ==
    IF i > Len(s) THEN i
    ELSE IF \A k \in i..Len(s) : s[k] \in JsonWhitespace THEN Len(s) + 1
    ELSE CHOOSE k \in i..Len(s) :
             /\ s[k] \notin JsonWhitespace
             /\ \A j \in i..(k - 1) : s[j] \in JsonWhitespace

\* whether s[i..i+3] are four hexadecimal digits
IsHex4(s, i) == i + 3 <= Len(s) /\ \A k \in i..(i + 3) : s[k] \in HexDigits

\* the number written by the four hexadecimal digits s[i..i+3]
Hex4(s, i) ==
    4096 * HexVal(s[i]) + 256 * HexVal(s[i + 1]) + 16 * HexVal(s[i + 2])
        + HexVal(s[i + 3])

\* the number of backslashes that stand in a row right before index p of
\* the literal that starts at index i
BackslashesBefore(s, i, p) ==
    IF p <= i \/ s[p - 1] # 92 THEN 0
    ELSE IF \A k \in i..(p - 1) : s[k] = 92 THEN p - i
    ELSE p - 1 - (CHOOSE k \in i..(p - 1) :
                      s[k] # 92 /\ \A j \in (k + 1)..(p - 1) : s[j] = 92)

\* whether an escape starts at index p: a backslash that is not itself the
\* character escaped by the backslash before it
EscapeAt(s, i, p) ==
    p >= i /\ p <= Len(s) /\ s[p] = 92 /\ BackslashesBefore(s, i, p) % 2 = 0

\* whether a \uXXXX escape starts at index p
UEscapeAt(s, i, p) ==
    EscapeAt(s, i, p) /\ p + 1 <= Len(s) /\ s[p + 1] = 117 /\ IsHex4(s, p + 2)

\* whether the escape at index p is the \uXXXX of a high surrogate
HighAt(s, i, p) == UEscapeAt(s, i, p) /\ Hex4(s, p + 2) \in 55296..56319

\* whether the escape at index p is the \uXXXX of a low surrogate
LowAt(s, i, p) == UEscapeAt(s, i, p) /\ Hex4(s, p + 2) \in 56320..57343

\* whether index p closes the literal: a quote that no backslash escapes
ClosesString(s, i, p) == s[p] = 34 /\ BackslashesBefore(s, i, p) % 2 = 0

\* whether the escape that starts at index p is one the decoder accepts: a
\* one-letter escape of json.decoder.BACKSLASH or \u and four hexadecimal
\* digits; after the \uXXXX of a high surrogate a following \u must carry
\* four hexadecimal digits as well
GoodEscape(s, i, p) ==
    /\ p + 1 <= Len(s)
    /\ IF s[p + 1] = 117
       THEN /\ IsHex4(s, p + 2)
            /\ (/\ Hex4(s, p + 2) \in 55296..56319
                /\ p + 7 <= Len(s)
                /\ s[p + 6] = 92
                /\ s[p + 7] = 117) => IsHex4(s, p + 8)
       ELSE s[p + 1] \in {34, 92, 47, 98, 102, 110, 114, 116}

\* the characters that index p of the literal contributes to the string:
\* an escape gives the character it stands for, a high and a low surrogate
\* escape in a row give the one character of the pair, the characters of
\* an escape after its backslash give nothing, any other character itself
StringPiece(s, i, p) ==
    IF EscapeAt(s, i, p) THEN
        IF s[p + 1] # 117 THEN <<Unescape(s[p + 1])>>
        ELSE IF LowAt(s, i, p) /\ HighAt(s, i, p - 6) THEN <<>>
        ELSE IF HighAt(s, i, p) /\ LowAt(s, i, p + 6)
            THEN <<65536 + 1024 * (Hex4(s, p + 2) - 55296)
                       + (Hex4(s, p + 8) - 56320)>>
        ELSE <<Hex4(s, p + 2)>>
    ELSE IF EscapeAt(s, i, p - 1) THEN <<>>
    ELSE IF \E d \in 2..5 : UEscapeAt(s, i, p - d) THEN <<>>
    ELSE <<s[p]>>

\* the body of a string literal from index i (after the opening quote) up
\* to the closing quote; a control character inside the literal is an
\* error (strict mode), and so is an escape the decoder does not accept
ScanString(s, i) ==
    IF \A p \in i..Len(s) : ~ClosesString(s, i, p) THEN ParseFail
    ELSE LET q == CHOOSE p \in i..Len(s) :
                      /\ ClosesString(s, i, p)
                      /\ \A j \in i..(p - 1) : ~ClosesString(s, i, j)
         IN IF \E p \in i..(q - 1) : s[p] < 32 THEN ParseFail
            ELSE IF \E p \in i..(q - 1) :
                        EscapeAt(s, i, p) /\ ~GoodEscape(s, i, p)
                THEN ParseFail
            ELSE ParseOk(JStr(Concat([p \in i..(q - 1) |->
                                          StringPiece(s, i, p)], i, q - 1)),
                         q + 1)

\* the index after the digits that start at index i
DigitsEnd(s, i) ==
    IF \A k \in i..Len(s) : s[k] \in Digits THEN Len(s) + 1
    ELSE CHOOSE k \in i..Len(s) :
             s[k] \notin Digits /\ \A j \in i..(k - 1) : s[j] \in Digits

\* digits without their leading zeros
StripLeadingZeros(d) ==
    IF \A k \in 1..Len(d) : d[k] = 48 THEN <<>>
    ELSE SubSeq(d, CHOOSE k \in 1..Len(d) :
                       d[k] # 48 /\ \A j \in 1..(k - 1) : d[j] = 48,
                Len(d))

\* the number of zeros that end the digits d
TrailingZeros(d) ==
    IF \A k \in 1..Len(d) : d[k] = 48 THEN Len(d)
    ELSE Len(d) - (CHOOSE k \in 1..Len(d) :
                       d[k] # 48 /\ \A j \in (k + 1)..Len(d) : d[j] = 48)

RECURSIVE DigitsValue(_, _)
\* the number written by the digits d, after acc
DigitsValue(d, acc) ==
    IF Len(d) = 0 THEN acc ELSE DigitsValue(Tail(d), 10 * acc + (d[1] - 48))

\* the number written by the digits of an exponent; a double has no
\* exponent beyond ExponentCap, which stands for every larger one
ExponentCap == 1000000
ExponentValue(d) ==
    IF Len(StripLeadingZeros(d)) > 6 THEN ExponentCap
    ELSE DigitsValue(StripLeadingZeros(d), 0)

\* the digit at place j of the decimal fraction 0.d
DigitAt(d, j) == IF j <= Len(d) THEN d[j] ELSE 48

\* 0.a < 0.b for two sequences of digits read as decimal fractions
FractionLess(a, b) ==
    \E i \in 1..Len(b) :
        /\ \A j \in 1..(i - 1) : DigitAt(a, j) = b[j]
        /\ DigitAt(a, i) < b[i]

\* the digits of 2^-1075 = 2.47...e-324, half the least positive double:
\* a number up to it is rounded to zero
HalfLeastDouble ==
    Str("247032822920623272088284396434110686182529901307162382212792")
        \o Str("841250337753635104375932649918180817996189898282347722858865")
        \o Str("463328355177969898199387398005390939063150356595155702263922")
        \o Str("908583924491051844359318028499365361525003193704576782492193")
        \o Str("656236698636584807570015857692699037063119282795585513329278")
        \o Str("343384093519780155312465972635795746227664652728272200563740")
        \o Str("064854999770965994704540208281662262378573934507363390079677")
        \o Str("619305775067401763246736009689513405355374585166611342237666")
        \o Str("786041621596804619144672918403005300575308490487653917113865")
        \o Str("916462395249126236538818796362393732804238910186723484976682")
        \o Str("350898633885879256283027559956575244555072551893136908362547")
        \o Str("791869486679949683240497058210285131854513962138377228261454")
        \o Str("37693412532098591327667236328125")

\* the digits of 2^1024 - 2^970 = 1.79...e308, half-way from the greatest
\* double to 2^1024: a number from it on is rounded to infinity
OverGreatestDouble ==
    Str("179769313486231580793728971405303415079934132710037826936173")
        \o Str("778980444968292764750946649017977587207096330286416692887910")
        \o Str("946555547851940402630657488671505820681908902000708383676273")
        \o Str("854845817711531764475730270069855571366959622842914819860834")
        \o Str("936475292719074168444365510704342711559699508093042880177904")
        \o Str("174497792")

\* float() of the number sign digits * 10^e, the digits d being the integer
\* and the fraction digits together
FloatOf(neg, d, e) ==
    LET sig == StripLeadingZeros(d)
        z == TrailingZeros(sig)
        m == SubSeq(sig, 1, Len(sig) - z)   \* the significant digits
        x == e + z + Len(m) - 1              \* m[1].m[2..] * 10^x
        sign == IF neg THEN <<45>> ELSE <<>>
    IN IF \/ m = <<>>
          \/ x < -324
          \/ (x = -324 /\ ~FractionLess(HalfLeastDouble, m))
       THEN JFloat(sign \o <<48>>, 0)
       ELSE IF \/ x > 308
               \/ (x = 308 /\ ~FractionLess(m, OverGreatestDouble))
       THEN JFloat(sign \o <<105, 110, 102>>, 0)
       ELSE JFloat(sign \o m, e + z)

\* a number at index i: -? (0 | [1-9][0-9]*) (\.[0-9]+)? ([eE][+-]?[0-9]+)?
\* with a fraction or an exponent it is a float, else an int
ScanNumber(s, i) ==
    LET neg == i <= Len(s) /\ s[i] = 45
        j == IF neg THEN i + 1 ELSE i
        \* index after the integer digits
        a == IF j <= Len(s) /\ s[j] = 48 THEN j + 1 ELSE DigitsEnd(s, j)
        hasFrac == a + 1 <= Len(s) /\ s[a] = 46 /\ s[a + 1] \in Digits
        \* index after the fraction
        b == IF hasFrac THEN DigitsEnd(s, a + 1) ELSE a
        hasE == b + 1 <= Len(s) /\ s[b] \in {101, 69}
        \* index of the first digit of the exponent
        c == IF hasE /\ b + 2 <= Len(s) /\ s[b + 1] \in {43, 45}
             THEN b + 2 ELSE b + 1
        hasExp == hasE /\ c <= Len(s) /\ s[c] \in Digits
        \* index after the exponent
        d == IF hasExp THEN DigitsEnd(s, c) ELSE b
        frac == IF hasFrac THEN SubSeq(s, a + 1, b - 1) ELSE <<>>
        ex == IF ~hasExp THEN 0
              ELSE IF s[c - 1] = 45 THEN 0 - ExponentValue(SubSeq(s, c, d - 1))
              ELSE ExponentValue(SubSeq(s, c, d - 1))
    IN IF j > Len(s) \/ s[j] \notin Digits THEN ParseFail
       ELSE IF hasFrac \/ hasExp THEN
           ParseOk(FloatOf(neg, SubSeq(s, j, a - 1) \o frac, ex - Len(frac)),
                   d)
       ELSE IF a - j > MaxStrDigits THEN ParseTooLong
       ELSE IF neg /\ SubSeq(s, j, a - 1) # <<48>>
           THEN ParseOk(JInt(SubSeq(s, i, a - 1)), a)
       ELSE ParseOk(JInt(SubSeq(s, j, a - 1)), a)

RECURSIVE DictSet(_, _, _)
\* d[key] = value on the pairs of a dict: a key already there keeps its
\* place and takes the value
DictSet(pairs, key, value) ==
    IF Len(pairs) = 0 THEN <<<<key, value>>>>
    ELSE IF pairs[1][1] = key THEN <<<<key, value>>>> \o Tail(pairs)
    ELSE <<pairs[1]>> \o DictSet(Tail(pairs), key, value)

\* the number of [ in the stretch of [ and whitespace that starts at index i:
\* the arrays the scanner enters before it reads anything else
OpenRun(s, i) ==
    LET Opening(q) == s[q] = 91 \/ s[q] \in JsonWhitespace
        end == CHOOSE e \in i..Len(s) :
                   /\ (e = Len(s) \/ ~Opening(e + 1))
                   /\ \A q \in i..e : Opening(q)
    IN Cardinality({q \in i..end : s[q] = 91})

\* whether entering the array or object number depth, counted from the
\* outermost one, exhausts the interpreter's recursion limit
TooDeep(depth) == CallDepth + depth >= RecursionLimit

\* the calls the scanner makes to raise a JSONDecodeError of its own: the
\* class, its __init__ and ValueError.__init__
ErrmsgCalls == 3

\* the call that turns NaN, Infinity or -Infinity into a float
ConstantCalls == 1

\* a failure the scanner reports itself (a delimiter, a property name or a
\* string literal is wrong) with depth arrays and objects open: the
\* JSONDecodeError is built under them, which the recursion limit may not
\* allow; "Expecting value" is raised after the scanner has returned
Errmsg(depth) ==
    IF TooDeep(depth + ErrmsgCalls) THEN ParseTooDeep ELSE ParseFail

\* a string literal from index i with depth arrays and objects open
ScanStringAt(s, i, depth) ==
    LET Checked(r) == IF r.ok THEN r ELSE Errmsg(depth)
    IN Checked(ScanString(s, i))

\* the float of a constant with depth arrays and objects open
ScanConstant(v, p, depth) ==
    IF TooDeep(depth + ConstantCalls) THEN ParseTooDeep ELSE ParseOk(v, p)

RECURSIVE ScanValue(_, _, _)
RECURSIVE ScanElements(_, _, _, _)
RECURSIVE ScanMembers(_, _, _, _)

\* the elements of an array, the first one starting at index i; depth counts
\* the arrays and objects open around them
ScanElements(s, i, acc, depth) ==
    LET r == ScanValue(s, i, depth)
        k == SkipWs(s, r.p)
    IN IF ~r.ok THEN r
       ELSE IF k <= Len(s) /\ s[k] = 44 THEN
           ScanElements(s, SkipWs(s, k + 1), Append(acc, r.v), depth)
       ELSE IF k <= Len(s) /\ s[k] = 93
           THEN ParseOk(JList(Append(acc, r.v)), k + 1)
       ELSE Errmsg(depth)

\* the members of an object, the first key starting at index i
ScanMembers(s, i, acc, depth) ==
    IF i > Len(s) \/ s[i] # 34 THEN Errmsg(depth)
    ELSE LET key == ScanStringAt(s, i + 1, depth)
             c == SkipWs(s, key.p)
             r == ScanValue(s, SkipWs(s, c + 1), depth)
             k == SkipWs(s, r.p)
         IN IF ~key.ok THEN key
            ELSE IF c > Len(s) \/ s[c] # 58 THEN Errmsg(depth)
            ELSE IF ~r.ok THEN r
            ELSE IF k <= Len(s) /\ s[k] = 44 THEN
                ScanMembers(s, SkipWs(s, k + 1), DictSet(acc, key.v.s, r.v),
                            depth)
            ELSE IF k <= Len(s) /\ s[k] = 125 THEN
                ParseOk(JDict(DictSet(acc, key.v.s, r.v)), k + 1)
            ELSE Errmsg(depth)

\* whether the text word stands in s at index i
WordAt(s, i, word) ==
    i + Len(word) - 1 <= Len(s) /\ SubSeq(s, i, i + Len(word) - 1) = word

\* the value that starts at index i, with depth arrays and objects open
\* around it; an array or object takes one more level of recursion, and a
\* run of [ is entered whole before anything else can fail; a value that
\* is missing or is no JSON value is reported after the scanner has
\* returned ("Expecting value"), whatever the depth
ScanValue(s, i, depth) ==
    IF i > Len(s) THEN ParseFail
    ELSE LET c == s[i]
             j == SkipWs(s, i + 1)
         IN
    IF c = 34 THEN ScanStringAt(s, i + 1, depth)
    ELSE IF c = 123 THEN
        (IF TooDeep(depth + 1) THEN ParseTooDeep
         ELSE IF j <= Len(s) /\ s[j] = 125
         THEN ParseOk(JDict(<<>>), j + 1)
         ELSE ScanMembers(s, j, <<>>, depth + 1))
    ELSE IF c = 91 THEN
        (IF TooDeep(depth + OpenRun(s, i)) THEN ParseTooDeep
         ELSE IF j <= Len(s) /\ s[j] = 93
         THEN ParseOk(JList(<<>>), j + 1)
         ELSE ScanElements(s, j, <<>>, depth + 1))
    ELSE IF WordAt(s, i, Str("null")) THEN ParseOk(JNull, i + 4)
    ELSE IF WordAt(s, i, Str("true")) THEN ParseOk(JBool(TRUE), i + 4)
    ELSE IF WordAt(s, i, Str("false")) THEN ParseOk(JBool(FALSE), i + 5)
    ELSE IF WordAt(s, i, Str("NaN"))
        THEN ScanConstant(JFloat(Str("nan"), 0), i + 3, depth)
    ELSE IF WordAt(s, i, Str("Infinity"))
        THEN ScanConstant(JFloat(Str("inf"), 0), i + 8, depth)
    ELSE IF WordAt(s, i, Str("-Infinity"))
        THEN ScanConstant(JFloat(Str("-inf"), 0), i + 9, depth)
    ELSE IF c = 45 \/ c \in Digits THEN ScanNumber(s, i)
    ELSE ParseFail

\* json.loads(s): exc is the exception raised, "" for none
json_loads(s) ==
    LET Whole(r) == IF r.ok /\ SkipWs(s, r.p) <= Len(s) THEN ParseFail ELSE r
    IN Whole(ScanValue(s, SkipWs(s, 1), 0))

\* bool(v) of a parsed value
Truthy(v) ==
    CASE v.t = "str" -> v.s # <<>>
      [] v.t = "int" -> v.s # <<48>>
      [] v.t = "float" -> v.s \notin {<<48>>, <<45, 48>>}
      [] v.t = "bool" -> v.n = 1
      [] v.t = "null" -> FALSE
      [] OTHER -> Len(v.items) > 0

RECURSIVE DictGet(_, _)
\* d.get(key) on the pairs of a dict, None for a missing key
DictGet(pairs, key) ==
    IF Len(pairs) = 0 THEN JNull
    ELSE IF pairs[1][1] = key THEN pairs[1][2]
    ELSE DictGet(Tail(pairs), key)

(***************************************************************************)
(* msg['To'] = to_address: the address header of the email package.  The   *)
(* value is parsed by get_address_list of email._header_value_parser into  *)
(* a tree of tokens, and email.headerregistry.AddressHeader.parse reads    *)
(* the display name, the local part and the domain of every mailbox of the *)
(* tree.  The parser is written for the headers of received mail; on a     *)
(* text that is no address list it can raise IndexError, AttributeError,   *)
(* TypeError or UnboundLocalError, which the operators below reproduce.    *)
(*                                                                         *)
(* A token is a record: k = "tl" for a TokenList of class c, token_type tt *)
(* (changed in place by the parser), children ch and defect classes df;    *)
(* k = "tm" for a Terminal of class c with text s; k = "str" for a plain   *)
(* str; k = "defect" for the defect object that get_domain_literal appends *)
(* as if it were a token; k = "none" for None.                             *)
(***************************************************************************)
\* the operators of the address header call each other by name, through
\* Apply (defined after the last of them)
RECURSIVE Apply(_, _)


Tl(c, tt, ch, df) ==
    [k |-> "tl", c |-> c, tt |-> tt, s |-> <<>>, ch |-> ch, df |-> df]
Tm(c, tt, s) ==
    [k |-> "tm", c |-> c, tt |-> tt, s |-> s, ch |-> <<>>, df |-> {}]
PyStr(s) == [k |-> "str", c |-> "str", tt |-> "", s |-> s, ch |-> <<>>, df |-> {}]
PyDefect == [k |-> "defect", c |-> "InvalidHeaderDefect", tt |-> "", s |-> <<>>,
             ch |-> <<>>, df |-> {}]
PyNone == [k |-> "none", c |-> "NoneType", tt |-> "", s |-> <<>>, ch |-> <<>>,
           df |-> {}]

ValueTerminal(s, tt) == Tm("ValueTerminal", tt, s)
WhiteSpaceTerminal(s, tt) == Tm("WhiteSpaceTerminal", tt, s)
DOT == ValueTerminal(<<46>>, "dot")
ListSeparator == ValueTerminal(<<44>>, "list-separator")
RouteComponentMarker == ValueTerminal(<<64>>, "route-component-marker")

\* the token list t with the defect class d appended to its defects
Defective(t, d) == [t EXCEPT !.df = @ \cup {d}]

\* the token list t with the token u appended
Appended(t, u) == [t EXCEPT !.ch = Append(@, u)]

\* token[:0] = [leader] when leader is not None
Led(leader, t) ==
    IF leader.k = "none" THEN t ELSE [t EXCEPT !.ch = <<leader>> \o @]

\* the result of a parse function: the exception raised ("" for none), the
\* token and the rest of the value
Parsed(t, v) == [x |-> "", t |-> t, v |-> v]
Raised(e) == [x |-> e, t |-> PyNone, v |-> <<>>]
HeaderParseError == "HeaderParseError"

\* a well-formed encoded word, "=?charset?q?text?=", is decoded with the
\* codec of its charset, which is not modelled
EncodedWordFound == "encoded-word"

WSP == {32, 9}                                       \* space, tab
CFWS_LEADER == WSP \cup {40}                         \* (
SPECIALS == {40, 41, 60, 62, 64, 44, 58, 59, 46, 92, 34, 91, 93}
ATOM_ENDS == SPECIALS \cup WSP
PHRASE_ENDS == SPECIALS \ {46, 34, 40}
HexDigitChars == (48..57) \cup (65..70) \cup (97..102)

\* value[i - 1:]
From(v, i) == SubSeq(v, i, Len(v))

\* value.startswith(prefix)
Starts(v, prefix) ==
    Len(v) >= Len(prefix) /\ SubSeq(v, 1, Len(prefix)) = prefix

\* the index of the first occurrence of the two characters a, b in v, 0 for
\* none
Find2(v, a, b) ==
    IF \E i \in 1..(Len(v) - 1) : v[i] = a /\ v[i + 1] = b
    THEN CHOOSE i \in 1..(Len(v) - 1) :
             /\ v[i] = a /\ v[i + 1] = b
             /\ \A j \in 1..(i - 1) : ~(v[j] = a /\ v[j + 1] = b)
    ELSE 0

\* the number of characters c in v
Count(v, c) == Cardinality({i \in 1..Len(v) : v[i] = c})

\* s with a backslash before each of its characters in chars
EscapeChars(s, chars) ==
    Concat([i \in 1..Len(s) |->
                IF s[i] \in chars THEN <<92, s[i]>> ELSE <<s[i]>>],
           1, Len(s))

quote_string(s) == <<34>> \o EscapeChars(s, {92, 34}) \o <<34>>

\* ''.join(str(x) for x in tokens)
JoinStr(tokens) ==
    Concat([k \in 1..Len(tokens) |-> Apply("TokStr", <<tokens[k]>>)], 1, Len(tokens))

\* ''.join(self.quote(x) for x in tokens) of Comment.__str__
CommentQuote(tokens) ==
    Concat([k \in 1..Len(tokens) |->
                IF tokens[k].tt = "comment" THEN Apply("TokStr", <<tokens[k]>>)
                ELSE EscapeChars(Apply("TokStr", <<tokens[k]>>), {92, 40, 41})],
           1, Len(tokens))

\* str(o)
TokStr(o) ==
    CASE o.k \in {"tm", "str"} -> o.s
      [] o.k = "tl" /\ o.c = "BareQuotedString" -> quote_string(Apply("JoinStr", <<o.ch>>))
      [] o.k = "tl" /\ o.c = "Comment" ->
             <<40>> \o Apply("CommentQuote", <<o.ch>>) \o <<41>>
      [] o.k = "tl" /\ o.c \notin {"BareQuotedString", "Comment"} ->
             Apply("JoinStr", <<o.ch>>)

\* the result of a property: the exception raised, whether it is None, and
\* its text otherwise
Text(s) == [x |-> "", none |-> FALSE, s |-> s]
NoText == [x |-> "", none |-> TRUE, s |-> <<>>]
TextRaised(e) == [x |-> e, none |-> FALSE, s |-> <<>>]

\* ''.join(x.value for x in tokens if x.value), after acc
JoinValue(tokens, acc) ==
    IF tokens = <<>> THEN Text(acc)
    ELSE LET r == Apply("TokValue", <<tokens[1]>>) IN
         IF r.x # "" THEN r ELSE Apply("JoinValue", <<Tail(tokens), acc \o r.s>>)

\* o.value
TokValue(o) ==
    CASE o.k = "tm" ->
             Text(IF o.c = "WhiteSpaceTerminal" THEN <<32>> ELSE o.s)
      [] o.k \in {"str", "defect", "none"} -> TextRaised("AttributeError")
      [] o.k = "tl" /\ o.c \in {"CFWSList", "Comment"} -> Text(<<32>>)
      [] o.k = "tl" /\ o.c = "BareQuotedString" -> Text(Apply("JoinStr", <<o.ch>>))
      [] o.k = "tl" /\ o.c \in
             {"TokenList", "Atom", "QuotedString", "DotAtom", "DotAtomText",
              "Domain", "DomainLiteral", "ObsLocalPart", "Phrase"} ->
             Apply("JoinValue", <<o.ch, <<>>>>)

\* get_fws: the whitespace that starts the value (str.lstrip)
get_fws(value) ==
    Parsed(WhiteSpaceTerminal(
               SubSeq(value, 1, Len(value) - Len(LStrip(value))), "fws"),
           LStrip(value))

\* the length of the fragment of value before its first space or tab
FragmentLen(value) ==
    IF \E i \in 1..Len(value) : value[i] \in WSP
    THEN (CHOOSE i \in 1..Len(value) :
              value[i] \in WSP /\ \A j \in 1..(i - 1) : value[j] \notin WSP) - 1
    ELSE Len(value)

\* whether the character at index pos of value follows a backslash that
\* escapes it: the number of backslashes right before it is odd
Escaped(value, pos) == BackslashesBefore(value, 1, pos) % 2 = 1

\* the loop of _get_ptext_to_endchars over value[1..n]: it stops at the
\* first character of endchars that is not escaped, and keeps the
\* characters before it but for the backslashes that escape the next one
PtextScan(value, n, endchars) ==
    LET Ends(pos) == value[pos] \in endchars /\ ~Escaped(value, pos)
        stop == IF \E pos \in 1..n : Ends(pos)
                THEN CHOOSE pos \in 1..n :
                         Ends(pos) /\ \A j \in 1..(pos - 1) : ~Ends(j)
                ELSE n + 1
    IN [s |-> Concat([pos \in 1..(stop - 1) |->
                          IF value[pos] = 92 /\ ~Escaped(value, pos)
                          THEN <<>> ELSE <<value[pos]>>],
                     1, stop - 1),
        p |-> stop]

\* _get_ptext_to_endchars wrapped as a terminal of class cls: with an empty
\* fragment the loop variable pos is read before it is ever assigned
get_ptext(value, endchars, cls) ==
    LET n == FragmentLen(value)
        r == PtextScan(value, n, endchars)
    IN IF n = 0 THEN Raised("UnboundLocalError")
       ELSE Parsed(Tm(cls, "ptext", r.s), From(value, r.p))

get_qp_ctext(value) == Apply("get_ptext", <<value, {40, 41}, "WhiteSpaceTerminal">>)
get_qcontent(value) == Apply("get_ptext", <<value, {34}, "ValueTerminal">>)
get_dtext(value) == Apply("get_ptext", <<value, {91, 93}, "ValueTerminal">>)

\* the length of the atext that starts the value
AtextLen(value) ==
    IF \E i \in 1..Len(value) : value[i] \in ATOM_ENDS
    THEN (CHOOSE i \in 1..Len(value) :
              /\ value[i] \in ATOM_ENDS
              /\ \A j \in 1..(i - 1) : value[j] \notin ATOM_ENDS) - 1
    ELSE Len(value)

get_atext(value) ==
    IF AtextLen(value) = 0 THEN Raised(HeaderParseError)
    ELSE Parsed(ValueTerminal(SubSeq(value, 1, AtextLen(value)), "atext"),
                From(value, AtextLen(value) + 1))

\* get_encoded_word on a value that starts with "=?": HeaderParseError
\* unless the word is well formed
get_encoded_word(value) ==
    LET body == From(value, 3)
        e == Find2(body, 63, 61)                     \* "?="
        tok0 == SubSeq(body, 1, e - 1)
        remstr == From(body, e + 2)
        more == /\ Len(remstr) > 1
                /\ remstr[1] \in HexDigitChars
                /\ remstr[2] \in HexDigitChars
                /\ Count(tok0, 63) < 2
        e2 == Find2(remstr, 63, 61)
        tok == IF ~more THEN tok0
               ELSE IF e2 = 0 THEN tok0 \o <<63, 61>> \o remstr
               ELSE tok0 \o <<63, 61>> \o SubSeq(remstr, 1, e2 - 1)
        q1 == CHOOSE i \in 1..Len(tok) : tok[i] = 63
        q2 == CHOOSE i \in (q1 + 1)..Len(tok) : tok[i] = 63
        cte == SubSeq(tok, q1 + 1, q2 - 1)
        text == From(tok, q2 + 1)
    IN IF ~Starts(value, <<61, 63>>) THEN Raised(HeaderParseError)
       ELSE IF e = 0 THEN Raised(HeaderParseError)
       ELSE IF Count(tok, 63) # 2 THEN Raised(HeaderParseError)
       ELSE IF cte \notin {<<113>>, <<81>>, <<98>>, <<66>>}
           THEN Raised(HeaderParseError)
       ELSE IF \E i \in 1..Len(text) :
                   text[i] >= 128 /\ text[i] \notin 56448..56575
           THEN Raised(HeaderParseError)
       ELSE Raised(EncodedWordFound)

\* the loop of get_comment
get_comment_loop(comment, value) ==
    IF value = <<>> THEN Parsed(Defective(comment, "Invalid"), value)
    ELSE IF value[1] = 41 THEN Parsed(comment, Tail(value))
    ELSE LET r == IF value[1] \in WSP THEN Apply("get_fws", <<value>>)
                  ELSE IF value[1] = 40 THEN Apply("get_comment", <<value>>)
                  ELSE Apply("get_qp_ctext", <<value>>)
         IN IF r.x # "" THEN r
            ELSE Apply("get_comment_loop", <<Appended(comment, r.t), r.v>>)

get_comment(value) ==
    IF value # <<>> /\ value[1] # 40 THEN Raised(HeaderParseError)
    ELSE Apply("get_comment_loop", <<Tl("Comment", "comment", <<>>, {}),
                          IF value = <<>> THEN <<>> ELSE Tail(value)>>)

get_cfws_loop(cfws, value) ==
    IF value = <<>> \/ value[1] \notin CFWS_LEADER THEN Parsed(cfws, value)
    ELSE LET r == IF value[1] \in WSP THEN Apply("get_fws", <<value>>)
                  ELSE Apply("get_comment", <<value>>)
         IN IF r.x # "" THEN r
            ELSE Apply("get_cfws_loop", <<Appended(cfws, r.t), r.v>>)

get_cfws(value) == Apply("get_cfws_loop", <<Tl("CFWSList", "cfws", <<>>, {}), value>>)

\* the optional CFWS that parse functions read before and after a token:
\* appended to the token list t
WithCfws(t, value) ==
    IF value # <<>> /\ value[1] \in CFWS_LEADER
    THEN LET r == Apply("get_cfws", <<value>>) IN
         IF r.x # "" THEN r ELSE Parsed(Appended(t, r.t), r.v)
    ELSE Parsed(t, value)

get_bare_quoted_string_loop(bqs, value) ==
    IF value = <<>> THEN Parsed(Defective(bqs, "Invalid"), value)
    ELSE IF value[1] = 34 THEN Parsed(bqs, Tail(value))
    ELSE LET ew == Apply("get_encoded_word", <<value>>)
             r == IF value[1] \in WSP THEN Apply("get_fws", <<value>>)
                  ELSE IF Starts(value, <<61, 63>>) /\ ew.x # HeaderParseError
                  THEN ew
                  ELSE Apply("get_qcontent", <<value>>)
         IN IF r.x # "" THEN r
            ELSE Apply("get_bare_quoted_string_loop", <<Appended(bqs, r.t), r.v>>)

get_bare_quoted_string(value) ==
    LET bqs == Tl("BareQuotedString", "bare-quoted-string", <<>>, {})
        v1 == Tail(value)
        first == Apply("get_qcontent", <<v1>>)
    IN IF value = <<>> THEN Raised("IndexError")
       ELSE IF value[1] # 34 THEN Raised(HeaderParseError)
       ELSE IF v1 # <<>> /\ v1[1] = 34
       THEN (IF first.x # "" THEN first
             ELSE Apply("get_bare_quoted_string_loop", <<Appended(bqs, first.t), first.v>>))
       ELSE Apply("get_bare_quoted_string_loop", <<bqs, v1>>)

get_quoted_string(value) ==
    LET a == Apply("WithCfws", <<Tl("QuotedString", "quoted-string", <<>>, {}), value>>)
        b == Apply("get_bare_quoted_string", <<a.v>>)
    IN IF a.x # "" THEN a
       ELSE IF b.x # "" THEN b
       ELSE Apply("WithCfws", <<Appended(a.t, b.t), b.v>>)

get_atom(value) ==
    LET a == Apply("WithCfws", <<Tl("Atom", "atom", <<>>, {}), value>>)
        ew == Apply("get_encoded_word", <<a.v>>)
        b == IF Starts(a.v, <<61, 63>>) /\ ew.x # HeaderParseError THEN ew
             ELSE Apply("get_atext", <<a.v>>)
    IN IF a.x # "" THEN a
       ELSE IF a.v # <<>> /\ a.v[1] \in ATOM_ENDS THEN Raised(HeaderParseError)
       ELSE IF b.x # "" THEN b
       ELSE Apply("WithCfws", <<Appended(a.t, b.t), b.v>>)

get_dot_atom_text_loop(t, value) ==
    IF value = <<>> \/ value[1] \in ATOM_ENDS
    THEN (IF t.ch[Len(t.ch)].tt = "dot" THEN Raised(HeaderParseError)
          ELSE Parsed(t, value))
    ELSE LET r == Apply("get_atext", <<value>>) IN
         IF r.v # <<>> /\ r.v[1] = 46
         THEN Apply("get_dot_atom_text_loop", <<
                  [t EXCEPT !.ch = @ \o <<r.t, DOT>>], Tail(r.v)>>)
         ELSE Apply("get_dot_atom_text_loop", <<Appended(t, r.t), r.v>>)

get_dot_atom_text(value) ==
    IF value = <<>> \/ value[1] \in ATOM_ENDS THEN Raised(HeaderParseError)
    ELSE Apply("get_dot_atom_text_loop", <<
             Tl("DotAtomText", "dot-atom-text", <<>>, {}), value>>)

get_dot_atom(value) ==
    LET a == Apply("WithCfws", <<Tl("DotAtom", "dot-atom", <<>>, {}), value>>)
        ew == Apply("get_encoded_word", <<a.v>>)
        b == IF Starts(a.v, <<61, 63>>) /\ ew.x # HeaderParseError THEN ew
             ELSE Apply("get_dot_atom_text", <<a.v>>)
    IN IF value = <<>> THEN Raised("IndexError")
       ELSE IF a.x # "" THEN a
       ELSE IF b.x # "" THEN b
       ELSE Apply("WithCfws", <<Appended(a.t, b.t), b.v>>)

get_word(value) ==
    LET hasLeader == value[1] \in CFWS_LEADER
        lead == IF hasLeader THEN Apply("get_cfws", <<value>>) ELSE Parsed(PyNone, value)
        r == IF lead.v[1] = 34 THEN Apply("get_quoted_string", <<lead.v>>)
             ELSE Apply("get_atom", <<lead.v>>)
    IN IF value = <<>> THEN Raised("IndexError")
       ELSE IF lead.x # "" THEN lead
       ELSE IF lead.v = <<>> THEN Raised(HeaderParseError)
       ELSE IF lead.v[1] # 34 /\ lead.v[1] \in SPECIALS
           THEN Raised(HeaderParseError)
       ELSE IF r.x # "" THEN r
       ELSE Parsed(Led(lead.t, r.t), r.v)

get_phrase_loop(phrase, value) ==
    IF value = <<>> \/ value[1] \in PHRASE_ENDS THEN Parsed(phrase, value)
    ELSE IF value[1] = 46
    THEN Apply("get_phrase_loop", <<Defective(Appended(phrase, DOT), "Obsolete"),
                         Tail(value)>>)
    ELSE LET w == Apply("get_word", <<value>>)
             c == Apply("get_cfws", <<value>>)
         IN IF w.x = "" THEN Apply("get_phrase_loop", <<Appended(phrase, w.t), w.v>>)
            ELSE IF w.x # HeaderParseError THEN w
            ELSE IF value[1] \notin CFWS_LEADER THEN w
            ELSE IF c.x # "" THEN c
            ELSE Apply("get_phrase_loop", <<
                     Defective(Appended(phrase, c.t), "Obsolete"), c.v>>)

get_phrase(value) ==
    LET w == Apply("get_word", <<value>>)
        phrase == Tl("Phrase", "phrase", <<>>, {})
    IN IF w.x = "" THEN Apply("get_phrase_loop", <<Appended(phrase, w.t), w.v>>)
       ELSE IF w.x = HeaderParseError
       THEN Apply("get_phrase_loop", <<Defective(phrase, "Invalid"), value>>)
       ELSE w

\* the checks of get_obs_local_part after its loop
get_obs_local_part_end(obs, value) ==
    LET n == Len(obs.ch)
        leadingDot == \/ obs.ch[1].tt = "dot"
                      \/ obs.ch[1].tt = "cfws" /\ obs.ch[2].tt = "dot"
        trailingDot == \/ obs.ch[n].tt = "dot"
                       \/ obs.ch[n].tt = "cfws" /\ obs.ch[n - 1].tt = "dot"
        t == IF leadingDot \/ trailingDot THEN Defective(obs, "Invalid")
             ELSE obs
    IN IF n = 0 THEN Raised("IndexError")
       ELSE IF n = 1 /\ obs.ch[1].tt = "cfws" THEN Raised("IndexError")
       ELSE Parsed(IF t.df # {}
                   THEN [t EXCEPT !.tt = "invalid-obs-local-part"] ELSE t,
                   value)

get_obs_local_part_loop(obs, last_non_ws_was_dot, value) ==
    IF value = <<>> \/ ~(value[1] = 92 \/ value[1] \notin PHRASE_ENDS)
    THEN Apply("get_obs_local_part_end", <<obs, value>>)
    ELSE IF value[1] = 46
    THEN Apply("get_obs_local_part_loop", <<
             Appended(IF last_non_ws_was_dot THEN Defective(obs, "Invalid")
                      ELSE obs, DOT),
             TRUE, Tail(value)>>)
    ELSE IF value[1] = 92
    THEN Apply("get_obs_local_part_loop", <<
             Defective(Appended(obs,
                                ValueTerminal(<<92>>, "misplaced-special")),
                       "Invalid"),
             FALSE, Tail(value)>>)
    ELSE LET t == IF obs.ch # <<>> /\ obs.ch[Len(obs.ch)].tt # "dot"
                  THEN Defective(obs, "Invalid") ELSE obs
             w == Apply("get_word", <<value>>)
             c == Apply("get_cfws", <<value>>)
         IN IF w.x = ""
            THEN Apply("get_obs_local_part_loop", <<Appended(t, w.t), FALSE, w.v>>)
            ELSE IF w.x # HeaderParseError THEN w
            ELSE IF value[1] \notin CFWS_LEADER THEN w
            ELSE IF c.x # "" THEN c
            ELSE Apply("get_obs_local_part_loop", <<Appended(t, c.t),
                                         last_non_ws_was_dot, c.v>>)

get_obs_local_part(value) ==
    Apply("get_obs_local_part_loop", <<Tl("ObsLocalPart", "obs-local-part", <<>>, {}),
                            FALSE, value>>)

\* the optional leader of get_word, get_local_part, get_domain and
\* get_name_addr: the CFWS that starts the value, None when there is none
Leader(value) ==
    IF value[1] \in CFWS_LEADER THEN Apply("get_cfws", <<value>>)
    ELSE Parsed(PyNone, value)

\* QuotedString.quoted_value on the tokens of a quoted string
QuotedValue(tokens) ==
    LET Part(k) == IF tokens[k].tt = "bare-quoted-string"
                   THEN Text(Apply("TokStr", <<tokens[k]>>))
                   ELSE Apply("TokValue", <<tokens[k]>>)
        Bad == {k \in 1..Len(tokens) : Part(k).x # ""}
    IN IF Bad # {}
       THEN Part(CHOOSE k \in Bad : \A m \in Bad : k <= m)
       ELSE Text(Concat([k \in 1..Len(tokens) |-> Part(k).s],
                        1, Len(tokens)))

\* LocalPart.value
LocalPartValue(local_part) ==
    IF local_part.ch[1].tt = "quoted-string"
    THEN QuotedValue(local_part.ch[1].ch)
    ELSE Apply("TokValue", <<local_part.ch[1]>>)

\* the end of get_local_part: local_part.value.encode('ascii') failing
\* appends a NonASCIILocalPartDefect
AsciiChecked(local_part, value) ==
    LET Done(val) ==
        IF val.x # "" THEN Raised(val.x)
        ELSE IF \E i \in 1..Len(val.s) : val.s[i] > 127
            THEN Parsed(Defective(local_part, "NonASCIILocalPart"), value)
        ELSE Parsed(local_part, value)
    IN Done(LocalPartValue(local_part))

get_local_part(value) ==
    LET lead == Apply("Leader", <<value>>)
        v == lead.v
        da == Apply("get_dot_atom", <<v>>)
        w == Apply("get_word", <<v>>)
        tok == IF da.x # HeaderParseError THEN da
               ELSE IF w.x # HeaderParseError THEN w
               ELSE IF v[1] # 92 /\ v[1] \in PHRASE_ENDS THEN w
               ELSE Parsed(Tl("TokenList", "", <<>>, {}), v)
        lp == Tl("LocalPart", "local-part", <<Led(lead.t, tok.t)>>, {})
        obs == Apply("get_obs_local_part", <<Apply("TokStr", <<lp>>) \o tok.v>>)
    IN IF value = <<>> THEN Raised("IndexError")
       ELSE IF lead.x # "" THEN lead
       ELSE IF v = <<>> THEN Raised(HeaderParseError)
       ELSE IF tok.x # "" THEN tok
       ELSE IF tok.v # <<>> /\ (tok.v[1] = 92 \/ tok.v[1] \notin PHRASE_ENDS)
       THEN (IF obs.x # "" THEN obs
             ELSE AsciiChecked(
                      [lp EXCEPT
                          !.ch = <<obs.t>>,
                          !.df = IF obs.t.tt = "invalid-obs-local-part"
                                 THEN {"Invalid"} ELSE {"Obsolete"}],
                      obs.v))
       ELSE AsciiChecked(lp, tok.v)

\* _check_for_early_dl_end at the end of the value: the defect is appended
\* to the tokens of the domain literal
EarlyDlEnd(domain_literal) ==
    Appended(Appended(domain_literal, PyDefect),
             ValueTerminal(<<93>>, "domain-literal-end"))

\* the optional whitespace inside a domain literal
WithFws(t, value) ==
    IF value[1] \in WSP
    THEN Parsed(Appended(t, Apply("get_fws", <<value>>).t), Apply("get_fws", <<value>>).v)
    ELSE Parsed(t, value)

get_domain_literal(value) ==
    LET a == Apply("WithCfws", <<Tl("DomainLiteral", "domain-literal", <<>>, {}), value>>)
        v1 == Tail(a.v)
        b == Apply("WithFws", <<Appended(a.t, ValueTerminal(<<91>>,
                                                 "domain-literal-start")), v1>>)
        c == Apply("get_dtext", <<b.v>>)
        d == Apply("WithFws", <<Appended(b.t, c.t), c.v>>)
    IN IF value = <<>> THEN Raised("IndexError")
       ELSE IF a.x # "" THEN a
       ELSE IF a.v = <<>> THEN Raised(HeaderParseError)
       ELSE IF a.v[1] # 91 THEN Raised(HeaderParseError)
       ELSE IF v1 = <<>> THEN Parsed(EarlyDlEnd(a.t), v1)
       ELSE IF c.x # "" THEN c
       ELSE IF c.v = <<>> THEN Parsed(EarlyDlEnd(Appended(b.t, c.t)), c.v)
       ELSE IF d.v = <<>> THEN Parsed(EarlyDlEnd(d.t), d.v)
       ELSE IF d.v[1] # 93 THEN Raised(HeaderParseError)
       ELSE Apply("WithCfws", <<Appended(d.t, ValueTerminal(<<93>>,
                                                 "domain-literal-end")),
                     Tail(d.v)>>)

\* the obsolete form of a domain: atoms separated by dots and CFWS
get_domain_loop(domain, value) ==
    IF value # <<>> /\ value[1] = 46
    THEN LET r == Apply("get_atom", <<Tail(value)>>) IN
         IF r.x # "" THEN r
         ELSE Apply("get_domain_loop", <<[domain EXCEPT !.ch = @ \o <<DOT, r.t>>], r.v>>)
    ELSE Parsed(domain, value)

get_domain(value) ==
    LET lead == Apply("Leader", <<value>>)
        v == lead.v
        dl == Apply("get_domain_literal", <<v>>)
        da == Apply("get_dot_atom", <<v>>)
        tok == IF da.x # HeaderParseError THEN da ELSE Apply("get_atom", <<v>>)
        domain == Tl("Domain", "domain", <<Led(lead.t, tok.t)>>, {})
    IN IF value = <<>> THEN Raised("IndexError")
       ELSE IF lead.x # "" THEN lead
       ELSE IF v = <<>> THEN Raised(HeaderParseError)
       ELSE IF v[1] = 91
       THEN (IF dl.x # "" THEN dl
             ELSE Parsed(Tl("Domain", "domain", <<Led(lead.t, dl.t)>>, {}),
                         dl.v))
       ELSE IF tok.x # "" THEN tok
       ELSE IF tok.v # <<>> /\ tok.v[1] = 64 THEN Raised(HeaderParseError)
       ELSE IF tok.v # <<>> /\ tok.v[1] = 46
       THEN Apply("get_domain_loop", <<
                Defective(IF domain.ch[1].tt = "dot-atom"
                          THEN [domain EXCEPT !.ch = domain.ch[1].ch]
                          ELSE domain, "Obsolete"),
                tok.v>>)
       ELSE Parsed(domain, tok.v)

get_addr_spec(value) ==
    LET lp == Apply("get_local_part", <<value>>)
        d == Apply("get_domain", <<Tail(lp.v)>>)
    IN IF lp.x # "" THEN lp
       ELSE IF lp.v = <<>> \/ lp.v[1] # 64
       THEN Parsed(Tl("AddrSpec", "addr-spec", <<lp.t>>, {"Invalid"}), lp.v)
       ELSE IF d.x # "" THEN d
       ELSE Parsed(Tl("AddrSpec", "addr-spec",
                      <<lp.t, ValueTerminal(<<64>>, "address-at-symbol"),
                        d.t>>, {}),
                   d.v)

\* the first loop of get_obs_route: commas and CFWS
get_obs_route_lead(route, value) ==
    IF value # <<>> /\ value[1] \in CFWS_LEADER
    THEN LET c == Apply("get_cfws", <<value>>) IN
         IF c.x # "" THEN c
         ELSE Apply("get_obs_route_lead", <<Appended(route, c.t), c.v>>)
    ELSE IF value # <<>> /\ value[1] = 44
    THEN Apply("get_obs_route_lead", <<Appended(route, ListSeparator), Tail(value)>>)
    ELSE Parsed(route, value)

\* the second loop of get_obs_route: ",@domain" repeated
get_obs_route_more(route, value) ==
    IF value # <<>> /\ value[1] = 44
    THEN LET r1 == Appended(route, ListSeparator)
             v1 == Tail(value)
             c == Apply("WithCfws", <<r1, v1>>)
             d == Apply("get_domain", <<Tail(c.v)>>)
         IN IF v1 = <<>> THEN Parsed(r1, v1)
            ELSE IF c.x # "" THEN c
            ELSE IF c.v = <<>> THEN Raised("IndexError")
            ELSE IF c.v[1] # 64 THEN Apply("get_obs_route_more", <<c.t, c.v>>)
            ELSE IF d.x # "" THEN d
            ELSE Apply("get_obs_route_more", <<
                     [c.t EXCEPT !.ch = @ \o <<RouteComponentMarker, d.t>>],
                     d.v>>)
    ELSE Parsed(route, value)

get_obs_route(value) ==
    LET a == Apply("get_obs_route_lead", <<Tl("ObsRoute", "obs-route", <<>>, {}), value>>)
        d == Apply("get_domain", <<Tail(a.v)>>)
        b == Apply("get_obs_route_more", <<
                 [a.t EXCEPT !.ch = @ \o <<RouteComponentMarker, d.t>>], d.v>>)
    IN IF a.x # "" THEN a
       ELSE IF a.v = <<>> \/ a.v[1] # 64 THEN Raised(HeaderParseError)
       ELSE IF d.x # "" THEN d
       ELSE IF b.x # "" THEN b
       ELSE IF b.v = <<>> THEN Raised(HeaderParseError)
       ELSE IF b.v[1] # 58 THEN Raised(HeaderParseError)
       ELSE Parsed(Appended(b.t, ValueTerminal(<<58>>,
                                               "end-of-obs-route-marker")),
                   Tail(b.v))

\* the end of get_angle_addr, after the addr-spec
get_angle_addr_end(angle_addr, value) ==
    IF value # <<>> /\ value[1] = 62
    THEN Apply("WithCfws", <<Appended(angle_addr, ValueTerminal(<<62>>,
                                                     "angle-addr-end")),
                  Tail(value)>>)
    ELSE Apply("WithCfws", <<Appended(Defective(angle_addr, "Invalid"),
                           ValueTerminal(<<62>>, "angle-addr-end")),
                  value>>)

get_angle_addr(value) ==
    LET a == Apply("WithCfws", <<Tl("AngleAddr", "angle-addr", <<>>, {}), value>>)
        t == Appended(a.t, ValueTerminal(<<60>>, "angle-addr-start"))
        v1 == Tail(a.v)
        spec == Apply("get_addr_spec", <<v1>>)
        route == Apply("get_obs_route", <<v1>>)
        spec2 == Apply("get_addr_spec", <<route.v>>)
    IN IF value = <<>> THEN Raised("IndexError")
       ELSE IF a.x # "" THEN a
       ELSE IF a.v = <<>> \/ a.v[1] # 60 THEN Raised(HeaderParseError)
       ELSE IF v1 = <<>> THEN Raised("IndexError")
       ELSE IF v1[1] = 62
       THEN Parsed(Defective(Appended(t, ValueTerminal(<<62>>,
                                                       "angle-addr-end")),
                             "Invalid"),
                   Tail(v1))
       ELSE IF spec.x = "" THEN Apply("get_angle_addr_end", <<Appended(t, spec.t), spec.v>>)
       ELSE IF spec.x # HeaderParseError THEN spec
       ELSE IF route.x # "" THEN route
       ELSE IF spec2.x # "" THEN spec2
       ELSE Apply("get_angle_addr_end", <<
                [Defective(t, "Obsolete") EXCEPT
                    !.ch = @ \o <<route.t, spec2.t>>],
                spec2.v>>)

get_display_name(value) ==
    LET p == Apply("get_phrase", <<value>>) IN
    IF p.x # "" THEN p
    ELSE Parsed([p.t EXCEPT !.c = "DisplayName", !.tt = "display-name"], p.v)

get_name_addr(value) ==
    LET lead == Apply("Leader", <<value>>)
        v == lead.v
        dn == Apply("get_display_name", <<v>>)
        named == Led(lead.t, dn.t.ch[1])
        aa == Apply("get_angle_addr", <<dn.v>>)
        bare == Apply("get_angle_addr", <<v>>)
    IN IF value = <<>> THEN Raised("IndexError")
       ELSE IF lead.x # "" THEN lead
       ELSE IF v = <<>> THEN Raised(HeaderParseError)
       ELSE IF v[1] = 60
       THEN (IF bare.x # "" THEN bare
             ELSE Parsed(Tl("NameAddr", "name-addr",
                            <<Led(lead.t, bare.t)>>, {}),
                         bare.v))
       ELSE IF v[1] \in PHRASE_ENDS THEN Raised(HeaderParseError)
       ELSE IF dn.x # "" THEN dn
       ELSE IF dn.v = <<>> THEN Raised(HeaderParseError)
       ELSE IF lead.t.k # "none" /\ dn.t.ch = <<>> THEN Raised("IndexError")
       ELSE IF lead.t.k # "none" /\ dn.t.ch[1].k # "tl"
           THEN Raised("TypeError")
       ELSE IF aa.x # "" THEN aa
       ELSE Parsed(Tl("NameAddr", "name-addr",
                      <<IF lead.t.k = "none" THEN dn.t
                        ELSE [dn.t EXCEPT !.ch[1] = named], aa.t>>, {}),
                   aa.v)

RECURSIVE HasDefectObject(_)
\* whether a defect object is among the tokens of the tree: it has no
\* attribute all_defects
HasDefectObject(t) ==
    \/ t.k \in {"defect", "str", "none"}
    \/ \E i \in 1..Len(t.ch) : HasDefectObject(t.ch[i])

RECURSIVE HasInvalidDefect(_)
\* any(isinstance(x, errors.InvalidHeaderDefect) for x in t.all_defects)
HasInvalidDefect(t) ==
    \/ "Invalid" \in t.df
    \/ \E i \in 1..Len(t.ch) : HasInvalidDefect(t.ch[i])

get_mailbox(value) ==
    LET na == Apply("get_name_addr", <<value>>)
        tok == IF na.x # HeaderParseError THEN na ELSE Apply("get_addr_spec", <<value>>)
    IN IF tok.x # "" THEN tok
       ELSE IF HasDefectObject(tok.t) THEN Raised("AttributeError")
       ELSE Parsed(Tl("Mailbox",
                      IF HasInvalidDefect(tok.t) THEN "invalid-mailbox"
                      ELSE "mailbox",
                      <<tok.t>>, {}),
                   tok.v)

get_invalid_mailbox_loop(t, value, endchars) ==
    IF value = <<>> \/ value[1] \in endchars THEN Parsed(t, value)
    ELSE IF value[1] \in PHRASE_ENDS
    THEN Apply("get_invalid_mailbox_loop", <<
             Appended(t, ValueTerminal(<<value[1]>>, "misplaced-special")),
             Tail(value), endchars>>)
    ELSE LET p == Apply("get_phrase", <<value>>) IN
         IF p.x # "" THEN p
         ELSE Apply("get_invalid_mailbox_loop", <<Appended(t, p.t), p.v, endchars>>)

get_invalid_mailbox(value, endchars) ==
    Apply("get_invalid_mailbox_loop", <<
        Tl("InvalidMailbox", "invalid-mailbox", <<>>, {}), value, endchars>>)

\* what get_mailbox_list and get_address_list do when no mailbox or address
\* starts the value: the list and the rest of the value afterwards; wrap is
\* TRUE where the invalid mailbox is put into an Address
InvalidEntry(list, value, endchars, wrap) ==
    LET c == Apply("get_cfws", <<value>>)
        hasLeader == value[1] \in CFWS_LEADER
        v == IF hasLeader THEN c.v ELSE value
        im == Apply("get_invalid_mailbox", <<v, endchars>>)
        tok == IF hasLeader THEN Led(c.t, im.t) ELSE im.t
    IN IF hasLeader /\ c.x # "" THEN c
       ELSE IF hasLeader /\ (v = <<>> \/ v[1] \in endchars)
       THEN Parsed(Defective(Appended(list, c.t), "Obsolete"), v)
       ELSE IF ~hasLeader /\ value[1] = 44
       THEN Parsed(Defective(list, "Obsolete"), value)
       ELSE IF im.x # "" THEN im
       ELSE Parsed(Defective(Appended(list,
                                      IF wrap
                                      THEN Tl("Address", "address", <<tok>>,
                                              {})
                                      ELSE tok),
                             "Invalid"),
                   im.v)

\* mailbox.token_type = 'invalid-mailbox' and mailbox.extend(token) on the
\* object o, the token being read from value up to endchars
Invalidated(o, value, endchars) ==
    LET im == Apply("get_invalid_mailbox", <<value, endchars>>) IN
    IF o.k \in {"str", "none"} THEN Raised("AttributeError")
    ELSE IF im.x # "" THEN im
    ELSE IF o.k # "tl" THEN Raised("AttributeError")
    ELSE Parsed([o EXCEPT !.tt = "invalid-mailbox", !.ch = @ \o im.t.ch],
                im.v)

get_mailbox_list_loop(list, value) ==
    IF value = <<>> \/ value[1] = 59 THEN Parsed(list, value)
    ELSE LET mb == Apply("get_mailbox", <<value>>)
             a == IF mb.x = "" THEN Parsed(Appended(list, mb.t), mb.v)
                  ELSE IF mb.x # HeaderParseError THEN mb
                  ELSE Apply("InvalidEntry", <<list, value, {44, 59}, FALSE>>)
             n == Len(a.t.ch)
             inv == Apply("Invalidated", <<a.t.ch[n], a.v, {44, 59}>>)
             b == IF a.v # <<>> /\ a.v[1] \notin {44, 59}
                  THEN (IF n = 0 THEN Raised("IndexError")
                        ELSE IF inv.x # "" THEN inv
                        ELSE Parsed(Defective([a.t EXCEPT !.ch[n] = inv.t],
                                              "Invalid"),
                                    inv.v))
                  ELSE a
         IN IF a.x # "" THEN a
            ELSE IF b.x # "" THEN b
            ELSE IF b.v # <<>> /\ b.v[1] = 44
            THEN Apply("get_mailbox_list_loop", <<Appended(b.t, ListSeparator),
                                       Tail(b.v)>>)
            ELSE Apply("get_mailbox_list_loop", <<b.t, b.v>>)

get_mailbox_list(value) ==
    Apply("get_mailbox_list_loop", <<Tl("MailboxList", "mailbox-list", <<>>, {}), value>>)

\* whether the token o counts in all_mailboxes of a mailbox list
IsAnyMailbox(o) == o.tt \in {"mailbox", "invalid-mailbox"}

get_group_list(value) ==
    LET group_list == Tl("GroupList", "group-list", <<>>, {})
        lead == Apply("Leader", <<value>>)
        ml == Apply("get_mailbox_list", <<lead.v>>)
    IN IF value = <<>> THEN Parsed(Defective(group_list, "Invalid"), value)
       ELSE IF lead.x # "" THEN lead
       ELSE IF lead.t.k # "none" /\ lead.v = <<>>
       THEN Parsed(Appended(Defective(group_list, "Invalid"), lead.t), lead.v)
       ELSE IF lead.t.k # "none" /\ lead.v[1] = 59
       THEN Parsed(Appended(group_list, lead.t), lead.v)
       ELSE IF ml.x # "" THEN ml
       ELSE IF \A i \in 1..Len(ml.t.ch) : ~IsAnyMailbox(ml.t.ch[i])
       THEN Parsed([Defective(Led(lead.t, group_list), "Obsolete") EXCEPT
                       !.ch = @ \o ml.t.ch],
                   ml.v)
       ELSE Parsed(Appended(group_list, Led(lead.t, ml.t)), ml.v)

get_group(value) ==
    LET dn == Apply("get_display_name", <<value>>)
        group == Tl("Group", "group",
                    <<dn.t, ValueTerminal(<<58>>,
                                          "group-display-name-terminator")>>,
                    {})
        v1 == Tail(dn.v)
        gl == Apply("get_group_list", <<v1>>)
        end == ValueTerminal(<<59>>, "group-terminator")
    IN IF dn.x # "" THEN dn
       ELSE IF dn.v = <<>> \/ dn.v[1] # 58 THEN Raised(HeaderParseError)
       ELSE IF v1 # <<>> /\ v1[1] = 59
       THEN Parsed(Appended(group, end), Tail(v1))
       ELSE IF gl.x # "" THEN gl
       ELSE IF gl.v = <<>>
       THEN Parsed([Defective(group, "Invalid") EXCEPT
                       !.ch = @ \o <<gl.t, end>>],
                   <<>>)
       ELSE IF gl.v[1] # 59 THEN Raised(HeaderParseError)
       ELSE Apply("WithCfws", <<[group EXCEPT !.ch = @ \o <<gl.t, end>>], Tail(gl.v)>>)

get_address(value) ==
    LET g == Apply("get_group", <<value>>)
        tok == IF g.x # HeaderParseError THEN g ELSE Apply("get_mailbox", <<value>>)
    IN IF tok.x # "" THEN tok
       ELSE Parsed(Tl("Address", "address", <<tok.t>>, {}), tok.v)

\* o[0]
First(o) ==
    IF o.k \in {"tl"} THEN
        (IF o.ch = <<>> THEN TextRaised("IndexError") ELSE Text(<<>>))
    ELSE IF o.k \in {"tm", "str"} THEN
        (IF o.s = <<>> THEN TextRaised("IndexError") ELSE Text(<<>>))
    ELSE TextRaised("TypeError")

get_address_list_loop(list, value) ==
    IF value = <<>> THEN Parsed(list, value)
    ELSE LET ad == Apply("get_address", <<value>>)
             a == IF ad.x = "" THEN Parsed(Appended(list, ad.t), ad.v)
                  ELSE IF ad.x # HeaderParseError THEN ad
                  ELSE Apply("InvalidEntry", <<list, value, {44}, TRUE>>)
             n == Len(a.t.ch)
             last == a.t.ch[n]
             mailbox == IF last.k = "tl" THEN last.ch[1]
                        ELSE PyStr(<<last.s[1]>>)
             inv == Apply("Invalidated", <<mailbox, a.v, {44}>>)
             b == IF a.v # <<>> /\ a.v[1] # 44
                  THEN (IF n = 0 THEN Raised("IndexError")
                        ELSE IF First(last).x # "" THEN Raised(First(last).x)
                        ELSE IF inv.x # "" THEN inv
                        ELSE Parsed(
                                 Defective([a.t EXCEPT !.ch[n].ch[1] = inv.t],
                                           "Invalid"),
                                 inv.v))
                  ELSE a
         IN IF a.x # "" THEN a
            ELSE IF b.x # "" THEN b
            ELSE IF b.v # <<>>
            THEN Apply("get_address_list_loop", <<
                     Appended(b.t, ValueTerminal(<<44>>, "list-separator")),
                     Tail(b.v)>>)
            ELSE Apply("get_address_list_loop", <<b.t, b.v>>)

get_address_list(value) ==
    Apply("get_address_list_loop", <<Tl("AddressList", "address-list", <<>>, {}), value>>)

\* the token type of o[0], or of o[-1] when last: the exception raised and
\* the type
TypeOf(tt) == [x |-> "", tt |-> tt]
TypeRaised(e) == [x |-> e, tt |-> ""]
EndType(o, last) ==
    IF o.k = "tl" THEN
        (IF o.ch = <<>> THEN TypeRaised("IndexError")
         ELSE LET c == o.ch[IF last THEN Len(o.ch) ELSE 1] IN
              IF c.k \in {"tl", "tm"} THEN TypeOf(c.tt)
              ELSE TypeRaised("AttributeError"))
    ELSE IF o.k \in {"tm", "str"} THEN
        (IF o.s = <<>> THEN TypeRaised("IndexError")
         ELSE TypeRaised("AttributeError"))
    ELSE TypeRaised("TypeError")

\* TokenList(tokens), a list of tokens with no class of its own
TokenList(tokens) == Tl("TokenList", "", tokens, {})

\* DisplayName.display_name: the value of the phrase without the CFWS at
\* its ends
DisplayNameOf(display_name) ==
    LET res == display_name.ch
        f == EndType(res[1], FALSE)
        res1 == IF res[1].tt = "cfws" THEN Tail(res)
                ELSE IF f.tt = "cfws"
                THEN <<TokenList(Tail(res[1].ch))>> \o Tail(res)
                ELSE res
        n == Len(res1)
        b == EndType(res1[n], TRUE)
        res2 == IF res1[n].tt = "cfws" THEN SubSeq(res1, 1, n - 1)
                ELSE IF b.tt = "cfws"
                THEN SubSeq(res1, 1, n - 1)
                         \o <<TokenList(SubSeq(res1[n].ch, 1,
                                               Len(res1[n].ch) - 1))>>
                ELSE res1
    IN IF res = <<>> THEN Text(<<>>)
       ELSE IF res[1].tt # "cfws" /\ f.x # "" THEN TextRaised(f.x)
       ELSE IF n = 0 THEN TextRaised("IndexError")
       ELSE IF res1[n].tt # "cfws" /\ b.x # "" THEN TextRaised(b.x)
       ELSE Apply("JoinValue", <<res2, <<>>>>)

\* the loop of LocalPart.local_part over the tokens toks: res the tokens
\* kept, last the latest of them, last_is_tl whether the token it came from
\* is a TokenList
LocalPartLoop(toks, res, last, last_is_tl) ==
    IF toks = <<>> THEN Apply("JoinValue", <<SubSeq(res, 2, Len(res) - 1), <<>>>>)
    ELSE LET tok == toks[1]
             back == EndType(last, TRUE)
             strip == last_is_tl /\ tok.tt = "dot" /\ back.tt = "cfws"
             res1 == IF strip
                     THEN [res EXCEPT ![Len(res)] =
                              TokenList(SubSeq(last.ch, 1, Len(last.ch) - 1))]
                     ELSE res
             is_tl == tok.k = "tl"
             front == EndType(tok, FALSE)
             kept == IF is_tl /\ last.tt = "dot" /\ front.tt = "cfws"
                     THEN TokenList(Tail(tok.ch)) ELSE tok
         IN IF tok.tt = "cfws"
            THEN Apply("LocalPartLoop", <<Tail(toks), res, last, last_is_tl>>)
            ELSE IF last_is_tl /\ tok.tt = "dot" /\ back.x # ""
            THEN TextRaised(back.x)
            ELSE IF is_tl /\ last.tt = "dot" /\ front.x # ""
            THEN TextRaised(front.x)
            ELSE Apply("LocalPartLoop", <<Tail(toks), Append(res1, kept), kept, is_tl>>)

\* LocalPart.local_part: the value of the local part without its CFWS
LocalPartOf(local_part) ==
    Apply("LocalPartLoop", <<local_part.ch[1].ch \o <<DOT>>, <<DOT>>, DOT, FALSE>>)

\* ''.join(s.split())
Unspaced(s) == SelectSeq(s, LAMBDA c : c \notin Whitespace)

\* Domain.domain
DomainOf(domain) ==
    LET v == Apply("JoinValue", <<domain.ch, <<>>>>) IN
    IF v.x # "" THEN v ELSE Text(Unspaced(v.s))

\* AddrSpec.local_part and AddrSpec.domain
AddrSpecLocalPart(addr_spec) == Apply("LocalPartOf", <<addr_spec.ch[1]>>)
AddrSpecDomain(addr_spec) ==
    IF Len(addr_spec.ch) < 3 THEN NoText
    ELSE Apply("DomainOf", <<addr_spec.ch[Len(addr_spec.ch)]>>)

\* the addr-spec among the tokens of an angle-addr, None when there is none
AngleAddrSpec(angle_addr) ==
    IF \E i \in 1..Len(angle_addr.ch) : angle_addr.ch[i].tt = "addr-spec"
    THEN angle_addr.ch[CHOOSE i \in 1..Len(angle_addr.ch) :
                           /\ angle_addr.ch[i].tt = "addr-spec"
                           /\ \A j \in 1..(i - 1) :
                                  angle_addr.ch[j].tt # "addr-spec"]
    ELSE PyNone

\* the display_name, local_part and domain of an element mb of
\* all_mailboxes: a Mailbox, an InvalidMailbox, or a Group that
\* get_address_list turned into an invalid mailbox
MailboxDisplayName(mb) ==
    CASE mb.c = "InvalidMailbox" -> NoText
      [] mb.c = "Group" -> Apply("DisplayNameOf", <<mb.ch[1]>>)
      [] mb.c = "Mailbox" ->
             IF mb.ch[1].tt # "name-addr" \/ Len(mb.ch[1].ch) = 1 THEN NoText
             ELSE Apply("DisplayNameOf", <<mb.ch[1].ch[1]>>)

\* the addr-spec of a Mailbox, None for a name-addr without one
MailboxAddrSpec(mb) ==
    IF mb.ch[1].c = "NameAddr"
    THEN Apply("AngleAddrSpec", <<mb.ch[1].ch[Len(mb.ch[1].ch)]>>)
    ELSE mb.ch[1]

MailboxLocalPart(mb) ==
    CASE mb.c = "InvalidMailbox" -> NoText
      [] mb.c = "Group" -> TextRaised("AttributeError")
      [] mb.c = "Mailbox" ->
             IF Apply("MailboxAddrSpec", <<mb>>).k = "none" THEN NoText
             ELSE Apply("AddrSpecLocalPart", <<Apply("MailboxAddrSpec", <<mb>>)>>)

MailboxDomain(mb) ==
    CASE mb.c = "InvalidMailbox" -> NoText
      [] mb.c = "Group" -> TextRaised("AttributeError")
      [] mb.c = "Mailbox" ->
             IF Apply("MailboxAddrSpec", <<mb>>).k = "none" THEN NoText
             ELSE Apply("AddrSpecDomain", <<Apply("MailboxAddrSpec", <<mb>>)>>)

\* Address(mb.display_name or '', mb.local_part or '', mb.domain or ''):
\* the exception raised, and the three texts together
AddressOf(mb) ==
    LET dn == Apply("MailboxDisplayName", <<mb>>)
        lp == Apply("MailboxLocalPart", <<mb>>)
        dom == Apply("MailboxDomain", <<mb>>)
        inputs == dn.s \o lp.s \o dom.s
    IN IF dn.x # "" THEN dn
       ELSE IF lp.x # "" THEN lp
       ELSE IF dom.x # "" THEN dom
       ELSE IF \E i \in 1..Len(inputs) : inputs[i] \in {10, 13}
       THEN TextRaised("ValueError")
       ELSE Text(inputs)

\* the Address objects of the mailboxes mbs, their texts after acc
AddressesOf(mbs, acc) ==
    IF mbs = <<>> THEN Text(acc)
    ELSE LET a == Apply("AddressOf", <<mbs[1]>>) IN
         IF a.x # "" THEN a ELSE Apply("AddressesOf", <<Tail(mbs), acc \o a.s>>)

\* Address.all_mailboxes of the parse tree
all_mailboxes(address) ==
    LET first == address.ch[1]
        list == first.ch[3].ch[1]
    IN IF first.tt \in {"mailbox", "invalid-mailbox"} THEN <<first>>
       ELSE IF first.ch[3].tt # "group-list" THEN <<>>
       ELSE IF first.ch[3].ch = <<>> \/ list.tt # "mailbox-list" THEN <<>>
       ELSE SelectSeq(list.ch, IsAnyMailbox)

\* Group(addr.display_name, [Address(...) for mb in addr.all_mailboxes])
GroupOf(address) ==
    LET dn == IF address.ch[1].tt = "group"
              THEN Apply("DisplayNameOf", <<address.ch[1].ch[1]>>) ELSE NoText
        as == Apply("AddressesOf", <<Apply("all_mailboxes", <<address>>), dn.s>>)
    IN IF dn.x # "" THEN dn ELSE as

\* the loop of AddressHeader.parse over the tokens of the address list
GroupsOf(tokens, acc) ==
    IF tokens = <<>> THEN Text(acc)
    ELSE IF tokens[1].tt # "address" THEN Apply("GroupsOf", <<Tail(tokens), acc>>)
    ELSE LET g == Apply("GroupOf", <<tokens[1]>>) IN
         IF g.x # "" THEN g ELSE Apply("GroupsOf", <<Tail(tokens), acc \o g.s>>)

\* the call fn(args[1], ..., args[n]) of an operator of the address header,
\* which these operators make by name
Apply(fn, args) ==
    CASE fn = "JoinStr" -> JoinStr(args[1])
      [] fn = "CommentQuote" -> CommentQuote(args[1])
      [] fn = "TokStr" -> TokStr(args[1])
      [] fn = "JoinValue" -> JoinValue(args[1], args[2])
      [] fn = "TokValue" -> TokValue(args[1])
      [] fn = "get_fws" -> get_fws(args[1])
      [] fn = "get_ptext" -> get_ptext(args[1], args[2], args[3])
      [] fn = "get_qp_ctext" -> get_qp_ctext(args[1])
      [] fn = "get_qcontent" -> get_qcontent(args[1])
      [] fn = "get_dtext" -> get_dtext(args[1])
      [] fn = "get_atext" -> get_atext(args[1])
      [] fn = "get_encoded_word" -> get_encoded_word(args[1])
      [] fn = "get_comment_loop" -> get_comment_loop(args[1], args[2])
      [] fn = "get_comment" -> get_comment(args[1])
      [] fn = "get_cfws_loop" -> get_cfws_loop(args[1], args[2])
      [] fn = "get_cfws" -> get_cfws(args[1])
      [] fn = "WithCfws" -> WithCfws(args[1], args[2])
      [] fn = "get_bare_quoted_string_loop" -> get_bare_quoted_string_loop(args[1], args[2])
      [] fn = "get_bare_quoted_string" -> get_bare_quoted_string(args[1])
      [] fn = "get_quoted_string" -> get_quoted_string(args[1])
      [] fn = "get_atom" -> get_atom(args[1])
      [] fn = "get_dot_atom_text_loop" -> get_dot_atom_text_loop(args[1], args[2])
      [] fn = "get_dot_atom_text" -> get_dot_atom_text(args[1])
      [] fn = "get_dot_atom" -> get_dot_atom(args[1])
      [] fn = "get_word" -> get_word(args[1])
      [] fn = "get_phrase_loop" -> get_phrase_loop(args[1], args[2])
      [] fn = "get_phrase" -> get_phrase(args[1])
      [] fn = "get_obs_local_part_end" -> get_obs_local_part_end(args[1], args[2])
      [] fn = "get_obs_local_part_loop" -> get_obs_local_part_loop(args[1], args[2], args[3])
      [] fn = "get_obs_local_part" -> get_obs_local_part(args[1])
      [] fn = "Leader" -> Leader(args[1])
      [] fn = "get_local_part" -> get_local_part(args[1])
      [] fn = "WithFws" -> WithFws(args[1], args[2])
      [] fn = "get_domain_literal" -> get_domain_literal(args[1])
      [] fn = "get_domain_loop" -> get_domain_loop(args[1], args[2])
      [] fn = "get_domain" -> get_domain(args[1])
      [] fn = "get_addr_spec" -> get_addr_spec(args[1])
      [] fn = "get_obs_route_lead" -> get_obs_route_lead(args[1], args[2])
      [] fn = "get_obs_route_more" -> get_obs_route_more(args[1], args[2])
      [] fn = "get_obs_route" -> get_obs_route(args[1])
      [] fn = "get_angle_addr_end" -> get_angle_addr_end(args[1], args[2])
      [] fn = "get_angle_addr" -> get_angle_addr(args[1])
      [] fn = "get_display_name" -> get_display_name(args[1])
      [] fn = "get_name_addr" -> get_name_addr(args[1])
      [] fn = "get_mailbox" -> get_mailbox(args[1])
      [] fn = "get_invalid_mailbox_loop" -> get_invalid_mailbox_loop(args[1], args[2], args[3])
      [] fn = "get_invalid_mailbox" -> get_invalid_mailbox(args[1], args[2])
      [] fn = "InvalidEntry" -> InvalidEntry(args[1], args[2], args[3], args[4])
      [] fn = "Invalidated" -> Invalidated(args[1], args[2], args[3])
      [] fn = "get_mailbox_list_loop" -> get_mailbox_list_loop(args[1], args[2])
      [] fn = "get_mailbox_list" -> get_mailbox_list(args[1])
      [] fn = "get_group_list" -> get_group_list(args[1])
      [] fn = "get_group" -> get_group(args[1])
      [] fn = "get_address" -> get_address(args[1])
      [] fn = "get_address_list_loop" -> get_address_list_loop(args[1], args[2])
      [] fn = "get_address_list" -> get_address_list(args[1])
      [] fn = "DisplayNameOf" -> DisplayNameOf(args[1])
      [] fn = "LocalPartLoop" -> LocalPartLoop(args[1], args[2], args[3], args[4])
      [] fn = "LocalPartOf" -> LocalPartOf(args[1])
      [] fn = "DomainOf" -> DomainOf(args[1])
      [] fn = "AddrSpecLocalPart" -> AddrSpecLocalPart(args[1])
      [] fn = "AddrSpecDomain" -> AddrSpecDomain(args[1])
      [] fn = "AngleAddrSpec" -> AngleAddrSpec(args[1])
      [] fn = "MailboxDisplayName" -> MailboxDisplayName(args[1])
      [] fn = "MailboxAddrSpec" -> MailboxAddrSpec(args[1])
      [] fn = "MailboxLocalPart" -> MailboxLocalPart(args[1])
      [] fn = "MailboxDomain" -> MailboxDomain(args[1])
      [] fn = "AddressOf" -> AddressOf(args[1])
      [] fn = "AddressesOf" -> AddressesOf(args[1], args[2])
      [] fn = "all_mailboxes" -> all_mailboxes(args[1])
      [] fn = "GroupOf" -> GroupOf(args[1])
      [] fn = "GroupsOf" -> GroupsOf(args[1], args[2])

\* a surrogate that str.encode('utf-8', 'surrogateescape') cannot encode
BadSurrogate(s) ==
    \E i \in 1..Len(s) : s[i] \in 55296..57343 /\ s[i] \notin 56448..56575

\* the exception that msg['To'] = to_address raises for a str, "" for none:
\* policy.header_store_parse, AddressHeader.parse and BaseHeader.__new__.
\* Not defined for an address with a well-formed encoded word.
AddressError(to_address) ==
    LET Read(tree, groups) ==
            CASE tree.x \notin {"", EncodedWordFound} -> tree.x
              [] tree.x = "" ->
                     IF groups.x # "" THEN groups.x
                     ELSE IF HasDefectObject(tree.t) THEN "AttributeError"
                     ELSE IF BadSurrogate(groups.s) THEN "UnicodeEncodeError"
                     ELSE ""
        Parse(tree) == Read(tree, Apply("GroupsOf", <<tree.t.ch, <<>>>>))
    IN IF MultiLine(to_address) THEN "ValueError"
       ELSE Parse(Apply("get_address_list", <<to_address>>))

(***************************************************************************)
(* print, and send_email: building the message (lines 132-136)             *)
(***************************************************************************)

\* the code points print cannot write: the standard output is utf-8 with the
\* surrogateescape handler (the streams of the C.UTF-8 locale), which turns
\* U+DC80..U+DCFF into the bytes 80..FF and refuses every other surrogate
Unprintable(c) == 55296 <= c /\ c <= 57343 /\ ~(56448 <= c /\ c <= 56575)

\* the exception print(text) raises, "" for none
PrintError(text) ==
    IF \E i \in 1..Len(text) : Unprintable(text[i])
    THEN "UnicodeEncodeError" ELSE ""

\* the exception msg.set_content(body) raises (line 133), "" for none: the
\* content manager has a handler for str only, and the text is encoded as
\* utf-8
ContentError(body) ==
    IF body.t # "str" THEN "KeyError"
    ELSE IF HasSurrogate(body.s) THEN "UnicodeEncodeError"
    ELSE ""

\* the exception msg['Subject'] = value raises (line 134), "" for none
HeaderError(value) ==
    CASE value.t = "str" ->
             IF MultiLine(value.s) THEN "ValueError"
             ELSE IF BadSurrogate(value.s) THEN "UnicodeEncodeError"
             ELSE ""
      [] value.t \in {"int", "float", "bool"} ->
             IF Truthy(value) THEN "TypeError" ELSE ""
      [] value.t = "dict" ->
             IF Truthy(value) THEN "KeyError" ELSE ""
      [] value.t = "list" ->
             IF ~Truthy(value) THEN ""
             ELSE IF value.items[1].t \in {"list", "dict"} THEN "TypeError"
             ELSE "AttributeError"
      [] OTHER -> ""

\* the texts send_email returns (lines 143, 145): the mail was sent, the
\* connection of line 140 timed out, the server was given no recipient
\* (str(SMTPRecipientsRefused({})) is "{}")
EmailSent(to_address) ==
    Str("Email sent successfully to ") \o to_address \o Str(".")
EmailNotSent == Str("Error sending email: timed out")
EmailRefused == Str("Error sending email: {}")

\* policy.max_line_length of the message's policy (email.policy.default)
MaxLineLength == 78

\* server.send_message(msg) (line 142) on a server that accepts every
\* command: the exception raised, "" when the message is sent.  The
\* recipients are the addresses of the To header: with none of them
\* smtplib.sendmail raises SMTPRecipientsRefused({}) after MAIL FROM.
\* Followed for a message whose To header the generator writes as it
\* stands, without encoding or folding: an ASCII address that fits one
\* line after "To: ", and in the subject no code point of U+DC80..U+DCFF
\* (an undecodable byte).  For any other message send_message is not
\* defined: the generator may fail on its headers.
send_message(to_address, subject) ==
    LET Ascii(text) == \A i \in 1..Len(text) : text[i] < 128
        Refused(tree) ==
            CASE Len(Str("To: ")) + Len(Apply("TokStr", <<tree>>))
                     <= MaxLineLength ->
                IF \A i \in 1..Len(tree.ch) : tree.ch[i].tt # "address"
                THEN "SMTPRecipientsRefused" ELSE ""
    IN CASE Ascii(to_address) /\ ~HasSurrogate(subject.s) ->
           Refused(Apply("get_address_list", <<to_address>>).t)

\* lines 124-145: exc is the exception that leaves send_email ("" for none),
\* ret the text it returns otherwise.  The four SMTP settings of lines 23-26
\* are set, so line 130 is not reached.  The print of line 128 comes first
\* and, like the building of the message, stands outside the try block;
\* smtp tells whether the connection of line 140 is made ("sent": to a
\* server that accepts every command) or times out ("failed").
send_email(to_address, subject, body, smtp) ==
    LET Session(refused) ==
            IF refused = "" THEN [exc |-> "", ret |-> EmailSent(to_address)]
            ELSE [exc |-> "", ret |-> EmailRefused]
        Built(content, header, address) ==
        IF content # "" THEN [exc |-> content, ret |-> <<>>]
        ELSE IF header # "" THEN [exc |-> header, ret |-> <<>>]
        ELSE IF address # "" THEN [exc |-> address, ret |-> <<>>]
        ELSE IF smtp = "sent"
            THEN Session(send_message(to_address, subject))
        ELSE [exc |-> "", ret |-> EmailNotSent]
    IN IF PrintError(to_address) # ""
       THEN [exc |-> PrintError(to_address), ret |-> <<>>]
       ELSE Built(ContentError(body), HeaderError(subject),
                  AddressError(to_address))

(***************************************************************************)
(* Bounds and the texts the external collaborators may return.  Of these   *)
(* texts only the subject of SurrogateDecision holds a code point print    *)
(* cannot write: the prints of the goal, the search results, the URLs and  *)
(* the summary (lines 36, 71, 199, 227, 249, 283, 295, 323) and the prompt *)
(* of line 377 write texts of these sets and raise nothing.                *)
(***************************************************************************)

\* number of turns of one session that the model follows
MaxTurns == 2

\* number of turns followed in a session whose inputs are SessionGoals
MaxSessionTurns == 1

\* a local variable that should hold a text and is not assigned: a sequence
\* that is no text, none of its elements being a code point
Unbound == <<-1>>

\* call_gemma_ollama on a timeout (line 171)
OllamaTimeout ==
    Str("Error: Ollama API request timed out. The model might be taking too long to respond.")

\* what the user types at the "What would you like to find?" prompt
SushiGoal == Str("sushi near me")
PizzaGoal == Str("pizza for a@b.c")
Goals == {SushiGoal, PizzaGoal, Str("Quit")}

\* a wider choice of what the user types at that prompt: the empty line, the
\* sentinels in several letter cases, a sentinel followed by a space, and
\* a line whose lower case is no sentinel although it looks like one
\* (U+0130, capital I with a dot above, becomes i and a combining dot)
SessionGoals ==
    {<<>>, PizzaGoal, Str("quit "), Str("quit"), Str("Quit"), Str("EXIT"),
     Str("eXit"), <<81, 85, 304, 84>>}

\* generator answers to prompt_extract_email
ExtractEmailTexts == {Str("none"), Str(" a@b.c\n"), OllamaTimeout}

\* generator answers to prompt_location_check and prompt_has_location
LocationCheckTexts == {Str("Yes."), Str("No")}
HasLocationTexts == {Str(" No\n"), Str("yes"), OllamaTimeout}

\* get_current_location: "City, Country" or an error text (lines 118-122)
Seattle == Str("Seattle, USA")
LocationTexts == {Seattle, Str("Error: Could not determine location.")}

\* generator answers to prompt1
QueryTexts == {Str(" \"sushi seattle\"\n"), OllamaTimeout}

\* search_web (lines 54-64)
SearchTexts ==
    {Str("Search Results:\n- Title: T\n  Link: http://a.io\n  Snippet: S\n\n")}

\* generator answers to prompt2; the second has a no-break space (U+00A0)
\* before its last URL
TwoUrls ==
    Str(" http://a.io \nsee also:\n ") \o <<160>> \o Str("https://b.io\n")
UrlTexts == {Str("I could not find any URL."), TwoUrls, OllamaTimeout}

\* browse_website(url): page text or an error text (lines 96-102)
OpenDaily == Str("Open daily.")
BrowseError(url) == Str("Error browsing website ") \o url \o Str(": 403")
BrowseTexts(url) == {OpenDaily, BrowseError(url)}

\* generator answers to prompt_summarize_snippets and prompt3
SushiOne == Str("* Sushi One")
SummaryTexts == {SushiOne, OllamaTimeout}

\* an answer to prompt4 with an integer of more digits than int() converts
LongNumberDecision ==
    Str("{\"send_email\": ") \o [i \in 1..(MaxStrDigits + 1) |-> 49]
        \o Str("}")

\* answers to prompt4 of a decision that is previewed and can be sent
SendDecision ==
    Str("{\"send_email\": true, \"subject\": \"S\", \"body\": \"B\"}")
NoSendDecision ==
    Str("{\"send_email\": false, \"subject\": \"S\", \"body\": \"B\"}")
EmptySubjectDecision ==
    Str("{\"send_email\": true, \"subject\": \"\", \"body\": \"B\"}")

\* an answer to prompt4 whose subject ends in a lone surrogate (U+D800)
SurrogateDecision ==
    Str("{\"send_email\": true, \"subject\": \"a\\ud800\", \"body\": \"B\"}")

\* an answer to prompt4 of as many nested arrays as exhaust the recursion
\* limit of the interpreter
DeepDecision == [i \in 1..(RecursionLimit - CallDepth) |-> 91]

\* generator answers to prompt4
DecisionTexts ==
    {OllamaTimeout,
     SurrogateDecision,
     DeepDecision,
     Str("[1]"),
     LongNumberDecision,
     Str("{\"send_email\": false}"),
     NoSendDecision,
     Str("{\"send_email\": true}"),
     EmptySubjectDecision,
     SendDecision,
     Str("{\"send_email\": 0.5, \"subject\": \"S\\nT\", \"body\": \"B\"}"),
     Str("{\"send_email\": true, \"subject\": [\"S\"], \"body\": \"B\"}"),
     Str("{\"send_email\": true, \"subject\": \"S\", \"body\": [\"B\"]}")}

\* what the user types at the confirmation prompts
ConfirmAnswers == {Str("y"), Str("Y"), Str("n"), Str("yes")}
MeAddress == Str("me@x.io")
AddressAnswers == {MeAddress, <<>>, Str("none"), Str("a@"), Str(" ")}

\* the SMTP server of send_email (lines 138-145): it is reached and accepts
\* every command ("sent"), or the connection times out ("failed")
SmtpOutcomes == {"sent", "failed"}

(***************************************************************************)
(* The steps of run_concierge_agent as operators                           *)
(***************************************************************************)

\* the words the code compares texts with
NoneWord == Str("none")
YesWord == Str("yes")
NoWord == Str("no")
ErrorWord == Str("Error")
HttpWord == Str("http")
InWord == Str(" in ")
ContentFrom == Str("Content from ")
Separator == Str("\n\n---\n\n")
UserPrefix == Str("User: ")
AgentPrefix == Str("Agent: ")

\* lines 194-196
ExtractRecipient(text) ==
    LET r == Strip(text) IN IF Contains(r, <<64>>) THEN r ELSE NoneWord

\* lines 210, 221: .strip().lower()
Classify(text) == Lower(Strip(text))

\* line 212
LocationNeeded(location_needed) == Contains(location_needed, YesWord)

\* line 222 testing for the absence of "yes"
LocationMissingUnlessYes(has_location) == ~Contains(has_location, YesWord)

\* line 222
LocationMissing(has_location) == Contains(has_location, NoWord)

\* lines 225-226 without the test of line 225
AugmentGoalAlways(g, current_location) == g \o InWord \o current_location

\* lines 225-226
AugmentGoal(g, current_location) ==
    IF ~StartsWith(current_location, ErrorWord)
    THEN g \o InWord \o current_location
    ELSE g

\* line 245
SearchQuery(text) == RemoveChar(Strip(text), 34)

\* line 267 keeping the lines as they are instead of trimmed
KeepHttpUntrimmed(lines) ==
    SelectSeq(lines, LAMBDA url : StartsWith(Strip(url), HttpWord))

\* line 267
KeepHttp(lines) ==
    LET kept == SelectSeq(lines, LAMBDA url : StartsWith(Strip(url), HttpWord))
    IN SubSeq([k \in 1..Len(kept) |-> Strip(kept[k])], 1, Len(kept))

\* lines 266-267
SelectUrls(text) == KeepHttp(Split(Strip(text), 10))

\* line 269 of a turn without the snippet fallback
NoFallbackAfterUrls(urls) ==
    IF urls = <<>> THEN "synthesize" ELSE "browse"

\* line 269: the position after URL selection
AfterUrls(urls) ==
    IF urls = <<>> THEN "summarize_snippets" ELSE "browse"

\* lines 292-293 without the test of line 292
CollectTextAlways(texts, url, text) ==
    Append(texts, ContentFrom \o url \o <<58, 10>> \o text)

\* lines 292-293
CollectText(texts, url, text) ==
    IF ~StartsWith(text, ErrorWord)
    THEN Append(texts, ContentFrom \o url \o <<58, 10>> \o text)
    ELSE texts

\* line 298 without its last sentence
FailureMessageShort ==
    Str("I tried to browse several websites but was blocked or couldn't find any information.")

\* line 298
FailureMessage ==
    Str("I tried to browse several websites but was blocked or couldn't find any information. Please try again.")

\* line 300
Aggregate(texts) == Join(Separator, texts)

\* the keys of the decision (lines 367-369)
SendEmailKey == Str("send_email")
SubjectKey == Str("subject")
BodyKey == Str("body")

\* the exception the print of the preview raises (line 372), "" for none:
\* the f-string holds a str as it is, and every other value by its repr,
\* which escapes the surrogates
PreviewError(subject, body) ==
    IF subject.t = "str" /\ PrintError(subject.s) # ""
        THEN PrintError(subject.s)
    ELSE IF body.t = "str" THEN PrintError(body.s)
    ELSE ""

\* lines 370-372 on the subject and the body read from the decision: the
\* preview is printed when both are truthy, and the confirmation prompts are
\* reached when the print raises nothing
Preview(email_decision, subject, body) ==
    IF ~(Truthy(subject) /\ Truthy(body)) THEN
        [exc |-> "", email_decision |-> email_decision,
         draft |-> FALSE, subject |-> subject, body |-> body]
    ELSE
        [exc |-> PreviewError(subject, body), email_decision |-> email_decision,
         draft |-> PreviewError(subject, body) = "",
         subject |-> subject, body |-> body]

\* lines 366-372 without the test of send_email at line 367
EmailDecisionIgnoreFlag(email_decision_str) ==
    LET Decided(r) ==
        IF ~r.ok THEN
            [exc |-> r.exc, email_decision |-> JUnbound,
             draft |-> FALSE, subject |-> JUnbound, body |-> JUnbound]
        ELSE IF r.v.t # "dict" THEN
            [exc |-> "AttributeError", email_decision |-> r.v,
             draft |-> FALSE, subject |-> JUnbound, body |-> JUnbound]
        ELSE Preview(r.v, DictGet(r.v.items, SubjectKey),
                     DictGet(r.v.items, BodyKey))
    IN Decided(json_loads(email_decision_str))

\* lines 366-372: exc is the exception raised inside the try block ("" for
\* none), email_decision, subject and body the locals assigned, and draft
\* says whether the preview is printed and the confirmation prompts are
\* reached.
EmailDecision(email_decision_str) ==
    LET Decided(r) ==
        IF ~r.ok THEN
            [exc |-> r.exc, email_decision |-> JUnbound,
             draft |-> FALSE, subject |-> JUnbound, body |-> JUnbound]
        ELSE IF r.v.t # "dict" THEN
            [exc |-> "AttributeError", email_decision |-> r.v,
             draft |-> FALSE, subject |-> JUnbound, body |-> JUnbound]
        ELSE IF ~Truthy(DictGet(r.v.items, SendEmailKey)) THEN
            [exc |-> "", email_decision |-> r.v,
             draft |-> FALSE, subject |-> JUnbound, body |-> JUnbound]
        ELSE Preview(r.v, DictGet(r.v.items, SubjectKey),
                     DictGet(r.v.items, BodyKey))
    IN Decided(json_loads(email_decision_str))

\* lines 378, 382 accepting every answer that begins with y
AffirmativeLoose(confirm) == StartsWith(confirm, <<121>>)

\* lines 378, 382
Affirmative(confirm) == confirm = <<121>>

\* line 385
HasRecipient(recipient_email) ==
    recipient_email # <<>> /\ recipient_email # NoneWord

\* line 391: the exceptions the turn handles itself
Handled(exc) == exc \in {"", "JSONDecodeError", "AttributeError"}

\* line 418 without lower()
IsQuitExact(user_goal) == user_goal \in {Str("quit"), Str("exit")}

\* line 418
IsQuit(user_goal) == Lower(user_goal) \in {Str("quit"), Str("exit")}

\* lines 424-425 in the other order
AppendTurnAgentFirst(history, user_goal, agent_summary) ==
    history \o <<AgentPrefix \o agent_summary, UserPrefix \o user_goal>>

\* lines 424-425
AppendTurn(history, user_goal, agent_summary) ==
    history \o <<UserPrefix \o user_goal, AgentPrefix \o agent_summary>>

(***************************************************************************)
(* The texts of the collaborators after the processing above, worked out   *)
(* once per text: the steps below look the results up.                     *)
(***************************************************************************)

\* lines 194-196 on each answer to prompt_extract_email
ExtractRecipientOf ==
    [text \in ExtractEmailTexts |-> ExtractRecipient(text)]

\* lines 210, 221 on each answer to the two classification prompts
ClassifyOf ==
    [text \in LocationCheckTexts \cup HasLocationTexts |-> Classify(text)]

\* line 245 on each answer to prompt1
SearchQueryOf == [text \in QueryTexts |-> SearchQuery(text)]

\* lines 266-267 on each answer to prompt2
BrowseUrlsStrOf == [text \in UrlTexts |-> Strip(text)]
SelectUrlsOf == [text \in UrlTexts |-> SelectUrls(text)]

\* lines 366-372 on each answer to prompt4
EmailDecisionOf == [text \in DecisionTexts |-> EmailDecision(text)]

\* lines 377, 381: .lower() of each answer at a confirmation prompt
LowerOf == [answer \in ConfirmAnswers |-> Lower(answer)]
(***************************************************************************)
(* State: the variables of main and of the running run_concierge_agent     *)
(* frame, the position pc in the code, and the calls of the current turn.  *)
(***************************************************************************)

VARIABLES
    pc,                         \* position in main / run_concierge_agent
    conversation_history,       \* main: list of "User: ..."/"Agent: ..."
    user_goal,                  \* main: the input of the current turn
    agent_summary,              \* main: value returned by the turn
    raised,                     \* exception that left the turn, "" for none
    goal,                       \* parameter goal, rewritten at line 226
    recipient_email_from_goal,
    location_needed,
    has_location,
    current_location,
    search_query,
    search_results,
    browse_urls_str,
    browse_urls,
    all_website_texts,
    fetched,                    \* line 291: the texts browse_website returned
    aggregated_text,
    final_summary,
    email_decision_str,
    email_decision,
    subject,
    body,
    confirm,
    recipient_email,
    result,                     \* line 386: the text send_email returned
    sent,                       \* line 386: the arguments given to send_email
    calls                       \* the external calls of the turn, in order

vars ==
    <<pc, conversation_history, user_goal, agent_summary, raised, goal,
      recipient_email_from_goal, location_needed, has_location,
      current_location, search_query, search_results, browse_urls_str,
      browse_urls, all_website_texts, fetched, aggregated_text, final_summary, email_decision_str,
      email_decision, subject, body, confirm, recipient_email, result, sent,
      calls>>

\* the locals of run_concierge_agent assigned after the location step
planVars == <<search_query, search_results>>
browseVars ==
    <<browse_urls_str, browse_urls, all_website_texts, fetched,
      aggregated_text>>
emailVars ==
    <<email_decision_str, email_decision, subject, body, confirm,
      recipient_email, result, sent>>
locationVars == <<location_needed, has_location, current_location>>
mainVars == <<conversation_history, user_goal>>

\* one external call: the function, the prompt it is given (the name of the
\* prompt variable, or of the input() prompt) and its argument (the goal
\* interpolated in a generation prompt, the query, the URL, the recipient)
Call(fn, prompt, arg) == [fn |-> fn, prompt |-> prompt, arg |-> arg]

Gemma(prompt, g) == Call("call_gemma_ollama", prompt, g)

\* the arguments of one send_email call (line 124)
Mail(to_address, subject_, body_) ==
    [to_address |-> to_address, subject |-> subject_, body |-> body_]

\* a fresh run_concierge_agent frame: no local assigned yet
FreshFrame ==
    /\ recipient_email_from_goal' = Unbound
    /\ location_needed' = Unbound
    /\ has_location' = Unbound
    /\ current_location' = Unbound
    /\ search_query' = Unbound
    /\ search_results' = Unbound
    /\ browse_urls_str' = Unbound
    /\ browse_urls' = <<>>
    /\ all_website_texts' = <<>>
    /\ fetched' = <<>>
    /\ aggregated_text' = Unbound
    /\ final_summary' = Unbound
    /\ email_decision_str' = Unbound
    /\ email_decision' = JUnbound
    /\ subject' = JUnbound
    /\ body' = JUnbound
    /\ confirm' = Unbound
    /\ recipient_email' = Unbound
    /\ result' = Unbound
    /\ sent' = <<>>

\* main after lines 403-414: waiting at the input of line 417 when
\* SERPER_API_KEY is set, and ended by the return of line 406, before any
\* input is read, when it is not
Init ==
    /\ \E serper_api_key_set \in BOOLEAN :
           pc = IF serper_api_key_set THEN "input_goal" ELSE "ended"
    /\ conversation_history = <<>>
    /\ user_goal = Unbound
    /\ agent_summary = Unbound
    /\ raised = ""
    /\ goal = Unbound
    /\ recipient_email_from_goal = Unbound
    /\ location_needed = Unbound
    /\ has_location = Unbound
    /\ current_location = Unbound
    /\ search_query = Unbound
    /\ search_results = Unbound
    /\ browse_urls_str = Unbound
    /\ browse_urls = <<>>
    /\ all_website_texts = <<>>
    /\ fetched = <<>>
    /\ aggregated_text = Unbound
    /\ final_summary = Unbound
    /\ email_decision_str = Unbound
    /\ email_decision = JUnbound
    /\ subject = JUnbound
    /\ body = JUnbound
    /\ confirm = Unbound
    /\ recipient_email = Unbound
    /\ result = Unbound
    /\ sent = <<>>
    /\ calls = <<>>

\* a turn that ends without a return statement (returns None)
ReturnNone(value) ==
    /\ agent_summary' = Unbound
    /\ pc' = "returned"

\* return value of line 285, 298 or 394
Return(value) ==
    /\ agent_summary' = value
    /\ pc' = "returned"

(***************************************************************************)
(* main                                                                    *)
(***************************************************************************)

\* lines 417-420: the user types quit or exit
Quit ==
    /\ pc = "input_goal"
    /\ \E text \in Goals :
        /\ IsQuit(text)
        /\ user_goal' = text
    /\ pc' = "ended"
    /\ UNCHANGED <<conversation_history, agent_summary, raised, goal,
                   recipient_email_from_goal, locationVars, planVars,
                   browseVars, final_summary, emailVars, calls>>

\* lines 417-422: the user types a goal and run_concierge_agent is entered
StartTurn ==
    /\ pc = "input_goal"
    /\ Len(conversation_history) < 2 * MaxTurns
    /\ \E text \in Goals :
        /\ ~IsQuit(text)
        /\ user_goal' = text
        /\ goal' = text
    /\ pc' = "extract_email"
    /\ calls' = <<>>
    /\ UNCHANGED <<conversation_history, agent_summary, raised,
                   recipient_email_from_goal, locationVars, planVars,
                   browseVars, final_summary, emailVars>>

\* lines 422-425: the turn has returned; the frame of the turn is gone
AppendHistory ==
    /\ pc = "returned"
    /\ conversation_history' =
           AppendTurn(conversation_history, user_goal, agent_summary)
    /\ pc' = "input_goal"
    /\ goal' = Unbound
    /\ FreshFrame
    /\ UNCHANGED <<user_goal, agent_summary, raised, calls>>

(***************************************************************************)
(* run_concierge_agent                                                     *)
(***************************************************************************)

\* lines 185-196
ExtractEmail ==
    /\ pc = "extract_email"
    /\ \E text \in ExtractEmailTexts :
        recipient_email_from_goal' = ExtractRecipientOf[text]
    /\ calls' = Append(calls, Gemma("prompt_extract_email", goal))
    /\ pc' = "location_check"
    /\ UNCHANGED <<mainVars, agent_summary, raised, goal, locationVars,
                   planVars, browseVars, final_summary, emailVars>>

\* lines 201-212
LocationCheck ==
    /\ pc = "location_check"
    /\ \E text \in LocationCheckTexts :
        /\ location_needed' = ClassifyOf[text]
        /\ pc' = IF LocationNeeded(ClassifyOf[text])
                 THEN "has_location" ELSE "plan_query"
    /\ calls' = Append(calls, Gemma("prompt_location_check", goal))
    /\ UNCHANGED <<mainVars, agent_summary, raised, goal,
                   recipient_email_from_goal, has_location, current_location,
                   planVars, browseVars, final_summary, emailVars>>

\* lines 213-222
HasLocation ==
    /\ pc = "has_location"
    /\ \E text \in HasLocationTexts :
        /\ has_location' = ClassifyOf[text]
        /\ pc' = IF LocationMissing(ClassifyOf[text])
                 THEN "get_location" ELSE "plan_query"
    /\ calls' = Append(calls, Gemma("prompt_has_location", goal))
    /\ UNCHANGED <<mainVars, agent_summary, raised, goal,
                   recipient_email_from_goal, location_needed,
                   current_location, planVars, browseVars, final_summary,
                   emailVars>>

\* lines 223-227
GetLocation ==
    /\ pc = "get_location"
    /\ \E text \in LocationTexts :
        /\ current_location' = text
        /\ goal' = AugmentGoal(goal, text)
    /\ calls' = Append(calls, Call("get_current_location", "", <<>>))
    /\ pc' = "plan_query"
    /\ UNCHANGED <<mainVars, agent_summary, raised,
                   recipient_email_from_goal, location_needed, has_location,
                   planVars, browseVars, final_summary, emailVars>>

\* lines 229-245
PlanQuery ==
    /\ pc = "plan_query"
    /\ \E text \in QueryTexts : search_query' = SearchQueryOf[text]
    /\ calls' = Append(calls, Gemma("prompt1", goal))
    /\ pc' = "search"
    /\ UNCHANGED <<mainVars, agent_summary, raised, goal,
                   recipient_email_from_goal, locationVars, search_results,
                   browseVars, final_summary, emailVars>>

\* lines 247-249 with the search made a second time
SearchWebRetried ==
    /\ pc = "search"
    /\ \E text \in SearchTexts : search_results' = text
    /\ calls' = calls \o <<Call("search_web", "", search_query),
                           Call("search_web", "", search_query)>>
    /\ pc' = "select_urls"
    /\ UNCHANGED <<mainVars, agent_summary, raised, goal,
                   recipient_email_from_goal, locationVars, search_query,
                   browseVars, final_summary, emailVars>>

\* lines 247-249
SearchWeb ==
    /\ pc = "search"
    /\ \E text \in SearchTexts : search_results' = text
    /\ calls' = Append(calls, Call("search_web", "", search_query))
    /\ pc' = "select_urls"
    /\ UNCHANGED <<mainVars, agent_summary, raised, goal,
                   recipient_email_from_goal, locationVars, search_query,
                   browseVars, final_summary, emailVars>>

\* lines 252-269 and 289
ChooseUrls ==
    /\ pc = "select_urls"
    /\ \E text \in UrlTexts :
        /\ browse_urls_str' = BrowseUrlsStrOf[text]
        /\ browse_urls' = SelectUrlsOf[text]
        /\ pc' = AfterUrls(SelectUrlsOf[text])
    /\ calls' = Append(calls, Gemma("prompt2", goal))
    /\ UNCHANGED <<mainVars, agent_summary, raised, goal,
                   recipient_email_from_goal, locationVars, planVars,
                   all_website_texts, fetched, aggregated_text,
                   final_summary, emailVars>>

\* lines 270-285
SummarizeSnippets ==
    /\ pc = "summarize_snippets"
    /\ \E text \in SummaryTexts :
        /\ final_summary' = text
        /\ Return(text)
    /\ calls' = Append(calls, Gemma("prompt_summarize_snippets", goal))
    /\ UNCHANGED <<mainVars, raised, goal, recipient_email_from_goal,
                   locationVars, planVars, browseVars, emailVars>>

\* number of browse_website calls made so far: the position of the for loop
Browsed ==
    Cardinality({i \in 1..Len(calls) : calls[i].fn = "browse_website"})

\* lines 290-300: one iteration of the for loop; the last one is followed by
\* the test of line 297
BrowseWebsite ==
    /\ pc = "browse"
    /\ LET url == browse_urls[Browsed + 1] IN
       \E text \in BrowseTexts(url) :
        LET texts == CollectText(all_website_texts, url, text) IN
        /\ all_website_texts' = texts
        /\ fetched' = Append(fetched, text)
        /\ calls' = Append(calls, Call("browse_website", "", url))
        /\ IF Browsed + 1 < Len(browse_urls) THEN
               /\ pc' = "browse"
               /\ UNCHANGED <<agent_summary, aggregated_text>>
           ELSE IF texts = <<>> THEN
               /\ Return(FailureMessage)
               /\ UNCHANGED aggregated_text
           ELSE
               /\ aggregated_text' = Aggregate(texts)
               /\ pc' = "synthesize"
               /\ UNCHANGED agent_summary
    /\ UNCHANGED <<mainVars, raised, goal, recipient_email_from_goal,
                   locationVars, planVars, browse_urls_str, browse_urls,
                   final_summary, emailVars>>

\* lines 302-324
Synthesize ==
    /\ pc = "synthesize"
    /\ \E text \in SummaryTexts : final_summary' = text
    /\ calls' = Append(calls, Gemma("prompt3", goal))
    /\ pc' = "draft_email"
    /\ UNCHANGED <<mainVars, agent_summary, raised, goal,
                   recipient_email_from_goal, locationVars, planVars,
                   browseVars, emailVars>>

\* lines 326-375 and, when no draft is previewed, lines 391-394; an
\* exception of json.loads that line 391 does not handle leaves the turn
DraftEmail ==
    /\ pc = "draft_email"
    /\ \E text \in DecisionTexts :
        /\ email_decision_str' = text
        /\ \E d \in {EmailDecisionOf[text]} :
            /\ email_decision' = d.email_decision
            /\ subject' = d.subject
            /\ body' = d.body
            /\ IF ~Handled(d.exc) THEN
                   /\ raised' = d.exc
                   /\ pc' = "raised"
                   /\ UNCHANGED <<agent_summary, recipient_email>>
               ELSE IF d.draft THEN
                   /\ recipient_email' = NoneWord
                   /\ pc' = IF recipient_email_from_goal # NoneWord
                            THEN "confirm_provided" ELSE "confirm_email"
                   /\ UNCHANGED <<agent_summary, raised>>
               ELSE
                   /\ Return(final_summary)
                   /\ UNCHANGED <<recipient_email, raised>>
    /\ calls' = Append(calls, Gemma("prompt4", goal))
    /\ UNCHANGED <<mainVars, goal, recipient_email_from_goal,
                   locationVars, planVars, browseVars, final_summary,
                   confirm, result,
                   sent>>

\* lines 376-379 and 385-394 when the answer is not 'y'
ConfirmProvided ==
    /\ pc = "confirm_provided"
    /\ \E answer \in ConfirmAnswers :
        LET to == IF Affirmative(LowerOf[answer])
                  THEN recipient_email_from_goal ELSE recipient_email IN
        /\ confirm' = LowerOf[answer]
        /\ recipient_email' = to
        /\ IF HasRecipient(to) THEN
               /\ pc' = "send_email"
               /\ UNCHANGED agent_summary
           ELSE Return(final_summary)
    /\ calls' = Append(calls, Call("input", "confirm_provided", <<>>))
    /\ UNCHANGED <<mainVars, raised, goal, recipient_email_from_goal,
                   locationVars, planVars, browseVars, final_summary,
                   email_decision_str, email_decision, subject, body,
                   result, sent>>

\* lines 380-382 and 385-394 when the answer is not 'y'
ConfirmEmail ==
    /\ pc = "confirm_email"
    /\ \E answer \in ConfirmAnswers :
        /\ confirm' = LowerOf[answer]
        /\ IF Affirmative(LowerOf[answer]) THEN
               /\ pc' = "enter_address"
               /\ UNCHANGED agent_summary
           ELSE IF HasRecipient(recipient_email) THEN
               /\ pc' = "send_email"
               /\ UNCHANGED agent_summary
           ELSE Return(final_summary)
    /\ calls' = Append(calls, Call("input", "confirm_email", <<>>))
    /\ UNCHANGED <<mainVars, raised, goal, recipient_email_from_goal,
                   locationVars, planVars, browseVars, final_summary,
                   email_decision_str, email_decision, subject, body,
                   recipient_email, result,
                   sent>>

\* lines 383 and 385-394 when no address is entered
EnterAddress ==
    /\ pc = "enter_address"
    /\ \E answer \in AddressAnswers :
        /\ recipient_email' = answer
        /\ IF HasRecipient(answer) THEN
               /\ pc' = "send_email"
               /\ UNCHANGED agent_summary
           ELSE Return(final_summary)
    /\ calls' = Append(calls, Call("input", "enter_address", <<>>))
    /\ UNCHANGED <<mainVars, raised, goal, recipient_email_from_goal,
                   locationVars, planVars, browseVars, final_summary,
                   email_decision_str, email_decision, subject, body,
                   confirm, result,
                   sent>>

\* line 386 with the summary sent in place of the drafted body
SendEmailSummary ==
    /\ pc = "send_email"
    /\ \E smtp \in SmtpOutcomes :
        \E r \in {send_email(recipient_email, subject, JStr(final_summary),
                            smtp)} :
        IF Handled(r.exc) THEN
            /\ result' = IF r.exc = "" THEN r.ret ELSE result
            /\ Return(final_summary)
            /\ UNCHANGED raised
        ELSE
            /\ raised' = r.exc
            /\ pc' = "raised"
            /\ UNCHANGED <<agent_summary, result>>
    /\ calls' = Append(calls, Call("send_email", "", recipient_email))
    /\ sent' = Append(sent, Mail(recipient_email, subject,
                                 JStr(final_summary)))
    /\ UNCHANGED <<mainVars, goal, recipient_email_from_goal, locationVars,
                   planVars, browseVars, final_summary, email_decision_str,
                   email_decision, subject, body, confirm, recipient_email>>

\* lines 386-394 with send_email (lines 124-145): an exception of send_email
\* that line 391 does not handle leaves the turn and main
SendEmail ==
    /\ pc = "send_email"
    /\ \E smtp \in SmtpOutcomes :
        \E r \in {send_email(recipient_email, subject, body, smtp)} :
        IF Handled(r.exc) THEN
            /\ result' = IF r.exc = "" THEN r.ret ELSE result
            /\ Return(final_summary)
            /\ UNCHANGED raised
        ELSE
            /\ raised' = r.exc
            /\ pc' = "raised"
            /\ UNCHANGED <<agent_summary, result>>
    /\ calls' = Append(calls, Call("send_email", "", recipient_email))
    /\ sent' = Append(sent, Mail(recipient_email, subject, body))
    /\ UNCHANGED <<mainVars, goal, recipient_email_from_goal, locationVars,
                   planVars, browseVars, final_summary, email_decision_str,
                   email_decision, subject, body, confirm, recipient_email>>

Next ==
    \/ Quit
    \/ StartTurn
    \/ AppendHistory
    \/ ExtractEmail
    \/ LocationCheck
    \/ HasLocation
    \/ GetLocation
    \/ PlanQuery
    \/ SearchWeb
    \/ ChooseUrls
    \/ SummarizeSnippets
    \/ BrowseWebsite
    \/ Synthesize
    \/ DraftEmail
    \/ ConfirmProvided
    \/ ConfirmEmail
    \/ EnterAddress
    \/ SendEmail

Spec == Init /\ [][Next]_vars

\* a step of the running turn: an external call or a prompt to the user
\* returns and run_concierge_agent goes on
TurnStep ==
    \/ ExtractEmail
    \/ LocationCheck
    \/ HasLocation
    \/ GetLocation
    \/ PlanQuery
    \/ SearchWeb
    \/ ChooseUrls
    \/ SummarizeSnippets
    \/ BrowseWebsite
    \/ Synthesize
    \/ DraftEmail
    \/ ConfirmProvided
    \/ ConfirmEmail
    \/ EnterAddress
    \/ SendEmail

\* the program when every external call and every prompt of a running turn
\* returns: the code is single-threaded and each call blocks until it does
FairSpec == Spec /\ WF_vars(TurnStep)

\* lines 417-420 with the input drawn from SessionGoals
SessionQuit ==
    /\ pc = "input_goal"
    /\ \E text \in SessionGoals :
        /\ IsQuit(text)
        /\ user_goal' = text
    /\ pc' = "ended"
    /\ UNCHANGED <<conversation_history, agent_summary, raised, goal,
                   recipient_email_from_goal, locationVars, planVars,
                   browseVars, final_summary, emailVars, calls>>

\* lines 417-422 with the input drawn from SessionGoals
SessionStartTurn ==
    /\ pc = "input_goal"
    /\ Len(conversation_history) < 2 * MaxSessionTurns
    /\ \E text \in SessionGoals :
        /\ ~IsQuit(text)
        /\ user_goal' = text
        /\ goal' = text
    /\ pc' = "extract_email"
    /\ calls' = <<>>
    /\ UNCHANGED <<conversation_history, agent_summary, raised,
                   recipient_email_from_goal, locationVars, planVars,
                   browseVars, final_summary, emailVars>>

SessionNext ==
    \/ SessionQuit
    \/ SessionStartTurn
    \/ AppendHistory
    \/ ExtractEmail
    \/ LocationCheck
    \/ HasLocation
    \/ GetLocation
    \/ PlanQuery
    \/ SearchWeb
    \/ ChooseUrls
    \/ SummarizeSnippets
    \/ BrowseWebsite
    \/ Synthesize
    \/ DraftEmail
    \/ ConfirmProvided
    \/ ConfirmEmail
    \/ EnterAddress
    \/ SendEmail

\* main with the wider choice of inputs
SessionSpec == Init /\ [][SessionNext]_vars
(***************************************************************************)
(* Properties                                                              *)
(***************************************************************************)

\* a turn is running or has just ended (its frame is still in the state)
InTurn == pc \notin {"input_goal", "ended"}

\* the turn has ended, by a return or by an exception
TurnOver == pc \in {"returned", "raised"}

\* number of calls of the turn to the function fn / with the prompt p
CountFn(fn) == Cardinality({i \in 1..Len(calls) : calls[i].fn = fn})
CountPrompt(p) == Cardinality({i \in 1..Len(calls) : calls[i].prompt = p})

\* the parsed decision carries a true send_email
SendEmailTrue ==
    /\ email_decision.t = "dict"
    /\ Truthy(DictGet(email_decision.items, SendEmailKey))

\* the user answered y or Y at a confirmation prompt and the recipient this
\* resolved is an address
ConfirmedRecipient ==
    /\ confirm = <<121>>
    /\ recipient_email \notin {Unbound, <<>>, NoneWord}

\* C1: when a turn is over, send_email has been called in it if and only if
\* the decision has a true send_email and the user confirmed a recipient
\* that is neither empty nor "none".
C1_SendIffConfirmed ==
    TurnOver => (CountFn("send_email") > 0
                    <=> (SendEmailTrue /\ ConfirmedRecipient))

C1_Witness ==
    /\ pc = "returned"
    /\ CountFn("send_email") = 1
    /\ SendEmailTrue /\ ConfirmedRecipient

\* C2: once URL selection has produced an empty list, the turn calls neither
\* browse_website, prompt3, prompt4, input nor send_email; it makes one
\* snippet-only generation call and returns the text of that call.
C2_EmptySelectionFallback ==
    (InTurn /\ CountPrompt("prompt2") > 0 /\ browse_urls = <<>>) =>
        /\ pc \in {"summarize_snippets", "returned"}
        /\ CountFn("browse_website") = 0
        /\ CountPrompt("prompt3") = 0
        /\ CountPrompt("prompt4") = 0
        /\ CountFn("input") = 0
        /\ CountFn("send_email") = 0
        /\ CountPrompt("prompt_summarize_snippets")
               = (IF pc = "returned" THEN 1 ELSE 0)
        /\ pc = "returned" => agent_summary = final_summary

C2_Witness ==
    /\ pc = "returned"
    /\ browse_urls = <<>>
    /\ CountPrompt("prompt2") = 1
    /\ CountPrompt("prompt_summarize_snippets") = 1
    /\ agent_summary = SushiOne

\* the fixed message of a turn that could read no page
BlockedMessage ==
    Str("I tried to browse several websites but was blocked or couldn't find any information. Please try again.")

\* C3: when every selected URL has been fetched and none gave usable text,
\* the turn has returned the fixed failure message without calling prompt3,
\* prompt4, input or send_email.
C3_AllFetchesFail ==
    (InTurn /\ browse_urls # <<>>
            /\ CountFn("browse_website") = Len(browse_urls)
            /\ all_website_texts = <<>>) =>
        /\ pc = "returned"
        /\ agent_summary = BlockedMessage
        /\ CountPrompt("prompt3") = 0
        /\ CountPrompt("prompt4") = 0
        /\ CountFn("input") = 0
        /\ CountFn("send_email") = 0

C3_Witness ==
    /\ pc = "returned"
    /\ Len(browse_urls) = 2
    /\ CountFn("browse_website") = 2
    /\ all_website_texts = <<>>

\* the decision text was read and did not parse (email_decision is not
\* assigned), parsed to something that is not an object, or has a true
\* send_email without a non-empty subject and body
Malformed ==
    /\ email_decision_str # Unbound
    /\ \/ email_decision.t # "dict"
       \/ /\ Truthy(DictGet(email_decision.items, SendEmailKey))
          /\ \/ ~Truthy(DictGet(email_decision.items, SubjectKey))
             \/ ~Truthy(DictGet(email_decision.items, BodyKey))

\* C4: a malformed decision ends the turn at once: no confirmation prompt,
\* no send_email call, no exception, and the synthesized summary is returned.
C4_MalformedDecisionIsNoSend ==
    (InTurn /\ Malformed) =>  /\ pc = "returned"
            /\ raised = ""
            /\ agent_summary = final_summary
            /\ CountPrompt("prompt3") = 1
            /\ CountFn("input") = 0
            /\ CountFn("send_email") = 0

\* C5: the step that ends a turn appends "User: <input>" and then
\* "Agent: <returned summary>" to the history, and no other step changes
\* the history.
C5_HistoryGrowsByTwo ==
    [][IF pc = "returned" /\ pc' = "input_goal"
       THEN conversation_history' =
                conversation_history
                    \o <<UserPrefix \o user_goal,
                         AgentPrefix \o agent_summary>>
       ELSE conversation_history' = conversation_history]_vars

C5_Witness ==
    /\ pc = "input_goal"
    /\ Len(conversation_history) = 4
    /\ conversation_history[1] = UserPrefix \o SushiGoal
    /\ conversation_history[3] = UserPrefix \o PizzaGoal
    /\ conversation_history[4] = AgentPrefix \o agent_summary

\* C6: while a turn runs, a goal without "@" has the recipient "none",
\* whatever the generator answered to prompt_extract_email.
C6_NoAtInGoalGivesNone ==
    (recipient_email_from_goal # Unbound /\ ~Contains(user_goal, <<64>>))
        => recipient_email_from_goal = NoneWord

\* the two classification answers as line 212 and line 222 read them
AnswerAIsYes == location_needed # Unbound /\ Contains(location_needed, YesWord)
AnswerBIsNo == has_location # Unbound /\ Contains(has_location, NoWord)

\* get_current_location returned a location
LocationResolved ==
    current_location # Unbound /\ ~StartsWith(current_location, ErrorWord)

\* the steps of a turn before query planning
LocationSteps ==
    {"extract_email", "location_check", "has_location", "get_location"}

\* C7: from query planning on, the goal is the input followed by
\* " in <location>" exactly when answer (a) is yes, answer (b) is no and
\* get_current_location returned a location, and is the input otherwise;
\* that goal is the one given to prompt1 and every later prompt; and
\* get_current_location is called only, and then once, when (a) is yes and
\* (b) is no.
C7_GoalAugmentation ==
    /\ (InTurn /\ CountFn("get_current_location") > 0)
           => (AnswerAIsYes /\ AnswerBIsNo)
    /\ (InTurn /\ pc \notin LocationSteps) =>
        /\ CountFn("get_current_location")
               = (IF AnswerAIsYes /\ AnswerBIsNo THEN 1 ELSE 0)
        /\ goal = (IF AnswerAIsYes /\ AnswerBIsNo /\ LocationResolved
                   THEN user_goal \o InWord \o current_location
                   ELSE user_goal)
        /\ \A i \in 1..Len(calls) :
               calls[i].prompt \in {"prompt1", "prompt2", "prompt3",
                                    "prompt4", "prompt_summarize_snippets"}
                   => calls[i].arg = goal

C7_Witness ==
    /\ pc = "search"
    /\ user_goal = SushiGoal
    /\ current_location = Seattle
    /\ calls[Len(calls)] = Gemma("prompt1", SushiGoal \o InWord \o Seattle)

\* C8: no exception leaves a turn.
C8_NoExceptionLeavesTurn == pc # "raised" /\ raised = ""

\* C9: text beginning with "Error" is never the query given to search_web,
\* never the value a turn returns and never an agent entry of the history.
C9_ErrorTextNeverUsed ==
    /\ \A i \in 1..Len(calls) :
           calls[i].fn = "search_web" => ~StartsWith(calls[i].arg, ErrorWord)
    /\ pc = "returned" => ~StartsWith(agent_summary, ErrorWord)
    /\ \A i \in 1..Len(conversation_history) :
           ~StartsWith(conversation_history[i], AgentPrefix \o ErrorWord)

\* C10: a turn that gathered text from at least one page and returns,
\* returns the text the prompt3 call gave, whatever the decision, the
\* answers at the prompts and the outcome of send_email were.
C10_ReturnsSynthesizerOutput ==
    (pc = "returned" /\ all_website_texts # <<>>) =>
        /\ CountPrompt("prompt3") = 1
        /\ final_summary \in SummaryTexts
        /\ agent_summary = final_summary

C10_Witness ==
    /\ pc = "returned"
    /\ all_website_texts # <<>>
    /\ CountFn("send_email") = 1
    /\ StartsWith(result, Str("Error sending email"))
    /\ agent_summary = SushiOne

\* the decision is one to preview: it has a true send_email and a non-empty
\* subject and body (line 370)
Previewed ==
    /\ SendEmailTrue
    /\ Truthy(DictGet(email_decision.items, SubjectKey))
    /\ Truthy(DictGet(email_decision.items, BodyKey))

\* the send_email calls of the turn are exactly one call, with the address to
OneSendTo(to) ==
    /\ CountFn("send_email") = 1
    /\ \A i \in 1..Len(calls) :
           calls[i].fn = "send_email" => calls[i].arg = to

\* the prompts of a finished turn that extracted no address: the user was
\* asked once whether to email at all, never to reuse an address, and was
\* asked for an address exactly when the answer was y or Y
AskedWhetherToEmail ==
    /\ CountPrompt("confirm_email") = 1
    /\ CountPrompt("confirm_provided") = 0
    /\ CountPrompt("enter_address") = (IF confirm = <<121>> THEN 1 ELSE 0)

\* C11: in a finished turn whose decision has a true send_email with a
\* subject and a body, and in which no address was extracted from the goal,
\* the user was asked once whether to email at all, never to reuse an
\* address, and for an address exactly after the answer y or Y; after y and
\* a non-empty entered address send_email was called exactly once, with that
\* address; after any other answer or an empty address it was not called.
C11_AnyEnteredAddressIsSent ==
    (TurnOver /\ Previewed /\ recipient_email_from_goal = NoneWord) =>
        /\ AskedWhetherToEmail
        /\ IF confirm = <<121>> /\ recipient_email # <<>>
           THEN OneSendTo(recipient_email)
           ELSE CountFn("send_email") = 0

\* C12: once the parsed decision has a false (or no) send_email, the turn
\* has returned without any prompt to the user and without a send_email
\* call.
C12_NoSendDecisionAsksNothing ==
    (InTurn /\ email_decision.t = "dict" /\ ~SendEmailTrue) =>
        /\ pc = "returned"
        /\ CountFn("input") = 0
        /\ CountFn("send_email") = 0

C12_Witness ==
    /\ pc = "returned"
    /\ email_decision_str = NoSendDecision
    /\ CountPrompt("prompt4") = 1
    /\ agent_summary = final_summary

\* C13: at the input of line 417, a line that is quit or exit in any letter
\* case ends the session with the history as it was and without a call;
\* every other line, the empty one included, enters a turn whose goal is
\* that line and changes nothing else; and an ended session takes no step.
C13_SentinelEndsSession ==
    [][/\ pc # "ended"
       /\ pc = "input_goal" =>
            /\ conversation_history' = conversation_history
            /\ IF Lower(user_goal') \in {Str("quit"), Str("exit")}
               THEN pc' = "ended" /\ calls' = calls
               ELSE /\ pc' = "extract_email"
                    /\ goal' = user_goal'
                    /\ calls' = <<>>]_vars

C13_Witness ==
    /\ pc = "ended"
    /\ user_goal = Str("eXit")
    /\ Len(conversation_history) = 2
    /\ conversation_history[1] = UserPrefix

\* the part of C14 about answer (a): without "yes" in it there is no second
\* classification and no get_current_location call, with "yes" in it the
\* second classification is made once
AnswerADecidedByYes ==
    IF Contains(location_needed, YesWord)
    THEN CountPrompt("prompt_has_location") = 1
    ELSE /\ CountPrompt("prompt_has_location") = 0
         /\ has_location = Unbound
         /\ CountFn("get_current_location") = 0

\* C14 as stated: from query planning on, answer (a) is decided by the
\* presence of "yes" in any letter case, and so is answer (b): after a yes
\* to (a), get_current_location was called exactly when (b) has no "yes".
C14_YesDecidesBothAnswers ==
    (InTurn /\ pc \notin LocationSteps) =>
        /\ AnswerADecidedByYes
        /\ Contains(location_needed, YesWord) =>
               CountFn("get_current_location")
                   = (IF ~Contains(has_location, YesWord) THEN 1 ELSE 0)

\* C14 amended: answer (a) is decided by the presence of "yes", answer (b)
\* by the presence of "no": after a yes to (a), get_current_location was
\* called exactly when (b) has "no" in it, whether or not it has "yes".
C14_NoDecidesSecondAnswer ==
    (InTurn /\ pc \notin LocationSteps) =>
        /\ AnswerADecidedByYes
        /\ Contains(location_needed, YesWord) =>
               CountFn("get_current_location")
                   = (IF Contains(has_location, NoWord) THEN 1 ELSE 0)

C14_Witness ==
    /\ pc = "plan_query"
    /\ location_needed = Str("yes.")
    /\ has_location = Lower(OllamaTimeout)
    /\ CountFn("get_current_location") = 0
    /\ goal = user_goal

\* the calls of the extraction step and of the location step
BeforePlanning(c) ==
    \/ c.prompt \in {"prompt_extract_email", "prompt_location_check",
                     "prompt_has_location"}
    \/ c.fn = "get_current_location"

\* the generation calls from query planning on
FromPlanning(c) ==
    c.prompt \in {"prompt1", "prompt2", "prompt3", "prompt4",
                  "prompt_summarize_snippets"}

\* C15: in the calls of a turn, the extraction call and the location check
\* (with the second classification and get_current_location, when made)
\* all come before the prompt1 call; prompt1 and every later generation
\* call are given the goal as the location step left it; and search_web is
\* called exactly once, right after prompt1 and right before prompt2.
C15_PlanningOrder ==
    InTurn =>
        /\ \A i \in 1..Len(calls) :
            /\ calls[i].prompt = "prompt1" =>
                /\ \A j \in 1..Len(calls) : BeforePlanning(calls[j]) <=> j < i
                /\ \E j \in 1..(i - 1) :
                       calls[j].prompt = "prompt_extract_email"
                /\ \E j \in 1..(i - 1) :
                       calls[j].prompt = "prompt_location_check"
            /\ FromPlanning(calls[i]) => calls[i].arg = goal
            /\ calls[i].fn = "search_web" =>
                   i > 1 /\ calls[i - 1].prompt = "prompt1"
            /\ calls[i].prompt = "prompt2" =>
                   calls[i - 1].fn = "search_web"
        /\ CountPrompt("prompt1")
               = (IF pc \in LocationSteps \cup {"plan_query"} THEN 0 ELSE 1)
        /\ CountFn("search_web")
               = (IF pc \in LocationSteps \cup {"plan_query", "search"}
                  THEN 0 ELSE 1)

C15_Witness ==
    /\ pc = "returned"
    /\ Len(calls) >= 7
    /\ calls[4] = Call("get_current_location", "", <<>>)
    /\ calls[5] = Gemma("prompt1", PizzaGoal \o InWord \o Seattle)
    /\ calls[6].fn = "search_web"
    /\ calls[7] = Gemma("prompt2", PizzaGoal \o InWord \o Seattle)

\* the two URLs of the answer TwoUrls
UrlA == Str("http://a.io")
UrlB == Str("https://b.io")

\* the URLs given to browse_website in the turn, in the order of the calls
FetchedUrls ==
    LET c == SelectSeq(calls, LAMBDA x : x.fn = "browse_website")
    IN  [k \in 1..Len(c) |-> c[k].arg]

\* the entries of the URLs among the first n selected whose fetch result
\* does not begin with "Error", in the order of the selection
RECURSIVE Entries(_)
Entries(n) ==
    IF n = 0 THEN <<>>
    ELSE Entries(n - 1)
           \o (IF StartsWith(fetched[n], ErrorWord) THEN <<>>
               ELSE <<ContentFrom \o browse_urls[n] \o <<58, 10>>
                         \o fetched[n]>>)

\* the steps of a turn after the for loop of lines 290-295 has ended
AfterBrowsing ==
    {"synthesize", "draft_email", "confirm_provided", "confirm_email",
     "enter_address", "send_email", "raised"}

\* C16: the URLs fetched so far are the first selected URLs, in the order
\* of the selection and one call each; the collected texts are the entries
\* of those among them whose result does not begin with "Error", in that
\* order; and when the loop has ended every selected URL has been fetched
\* once and the aggregate, if any text was collected, is these entries
\* joined.
C16_FetchOrderAndAggregate ==
    InTurn =>
        /\ Len(FetchedUrls) <= Len(browse_urls)
        /\ FetchedUrls = SubSeq(browse_urls, 1, Len(FetchedUrls))
        /\ Len(fetched) = Len(FetchedUrls)
        /\ all_website_texts = Entries(Len(fetched))
        /\ pc \in AfterBrowsing \cup {"returned"} => FetchedUrls = browse_urls
        /\ (pc \in AfterBrowsing \cup {"returned"} /\ all_website_texts # <<>>)
               => aggregated_text = Join(Separator, all_website_texts)

C16_Witness ==
    /\ pc = "synthesize"
    /\ FetchedUrls = <<UrlA, UrlB>>
    /\ fetched = <<Str("Error browsing website http://a.io: 403"), OpenDaily>>
    /\ aggregated_text = Str("Content from https://b.io:\nOpen daily.")

\* C17: in a finished turn whose decision has a true send_email with a
\* subject and a body, and in which an address was extracted from the goal,
\* the user was asked once whether to reuse that address and nothing else;
\* after y or Y send_email was called exactly once, with the extracted
\* address; after any other answer it was not called.
C17_ReuseExtractedAddress ==
    (TurnOver /\ Previewed /\ recipient_email_from_goal # NoneWord) =>
        /\ CountPrompt("confirm_provided") = 1
        /\ CountFn("input") = 1
        /\ IF confirm = <<121>>
           THEN OneSendTo(recipient_email_from_goal)
           ELSE CountFn("send_email") = 0

\* the trimmed lines of a text, in order
LinesTrimmed(text) ==
    LET lines == Split(text, 10)
    IN  [k \in 1..Len(lines) |-> Strip(lines[k])]

\* the trimmed lines of each stripped answer to prompt2, worked out once
LinesTrimmedOf ==
    [str \in {Strip(text) : text \in UrlTexts} |-> LinesTrimmed(str)]

\* the trimmed lines of the answer to prompt2, in order
TrimmedLines == LinesTrimmedOf[browse_urls_str]

\* C18: once URLs are selected, they are the trimmed lines of the answer to
\* prompt2 that start with "http", in the order of the lines, and the URLs
\* given to browse_website are the first of these: no other line is
\* fetched.
C18_OnlyHttpLinesFetched ==
    (InTurn /\ browse_urls_str # Unbound) =>
        LET trimmed == TrimmedLines
            kept == SelectSeq(trimmed, LAMBDA l : StartsWith(l, HttpWord))
            urls == FetchedUrls
        IN  /\ browse_urls = kept
            /\ Len(urls) <= Len(kept)
            /\ urls = SubSeq(kept, 1, Len(urls))
            /\ \A k \in 1..Len(urls) :
                   /\ StartsWith(urls[k], HttpWord)
                   /\ \E j \in 1..Len(trimmed) : urls[k] = trimmed[j]

C18_Witness ==
    /\ pc = "synthesize"
    /\ browse_urls_str = Str("http://a.io \nsee also:\n ") \o <<160>> \o UrlB
    /\ TrimmedLines = <<UrlA, Str("see also:"), UrlB>>
    /\ FetchedUrls = <<UrlA, UrlB>>

\* the steps of a turn from the preview of line 372 to the send_email call
AfterPreview ==
    {"confirm_provided", "confirm_email", "enter_address", "send_email"}

\* C20: from the preview on, subject and body are the ones of the parsed
\* decision; a send_email call is given exactly these and the recipient
\* resolved at the prompts; and a turn that calls send_email has fetched a
\* page with usable text and has called prompt3 and prompt4 once each
\* before.
C20_SendsWhatWasPreviewed ==
    InTurn =>
        /\ (pc \in AfterPreview \/ sent # <<>>) =>
            /\ Previewed
            /\ subject = DictGet(email_decision.items, SubjectKey)
            /\ body = DictGet(email_decision.items, BodyKey)
        /\ Len(sent) = CountFn("send_email")
        /\ sent # <<>> =>
            /\ sent = <<Mail(recipient_email,
                             DictGet(email_decision.items, SubjectKey),
                             DictGet(email_decision.items, BodyKey))>>
            /\ browse_urls # <<>> /\ all_website_texts # <<>>
            /\ CountPrompt("prompt_summarize_snippets") = 0
            /\ calls[Len(calls)].fn = "send_email"
            /\ \E j \in 2..(Len(calls) - 1) :
                   /\ calls[j].prompt = "prompt4"
                   /\ \E i \in 1..(j - 1) : calls[i].prompt = "prompt3"

C20_Witness ==
    /\ pc = "returned"
    /\ email_decision_str = SendDecision
    /\ sent = <<Mail(MeAddress, JStr(<<83>>), JStr(<<66>>))>>
    /\ result = Str("Email sent successfully to me@x.io.")

\* each generation prompt, search_web, get_current_location and send_email
\* is called at most once in a turn, each prompt to the user is shown at
\* most once, and there are at most as many fetches as selected URLs
NoCallRepeated ==
    /\ \A i, j \in 1..Len(calls) :
           (i # j /\ calls[i].fn # "browse_website") => calls[i] # calls[j]
    /\ \A p \in {"prompt_extract_email", "prompt_location_check",
                  "prompt_has_location", "prompt1", "prompt2",
                  "prompt_summarize_snippets", "prompt3", "prompt4",
                  "confirm_provided", "confirm_email", "enter_address"} :
           CountPrompt(p) <= 1
    /\ \A f \in {"get_current_location", "search_web", "send_email"} :
           CountFn(f) <= 1
    /\ CountFn("browse_website") <= Len(browse_urls)

\* C19: when every call and prompt returns, a started turn eventually
\* returns its summary, and along the way no call is repeated, the fetches
\* are at most as many as the selected URLs and send_email is called at
\* most once.
C19_EveryTurnReachesDone ==
    /\ [](InTurn => NoCallRepeated)
    /\ (pc = "extract_email") ~> (pc = "returned")

====
